---- MODULE Spec2Model ----
(***************************************************************************)
(* A model of cfgs (cmd/cfgs/main.go): a dotfile manager that keeps the    *)
(* live configuration directory (XDG_CONFIG_HOME) and a git repository of  *)
(* canonical copies consistent through symlinks.                           *)
(*                                                                         *)
(* Strings are sequences of one-character strings, so that trimming,       *)
(* cleaning and prefix tests are computed as the Go code computes them.    *)
(* Absolute paths are sequences of components (each component a string).   *)
(* The filesystem is a tree of entries keyed by absolute path; path        *)
(* resolution follows symlinks the way the kernel does, which is what      *)
(* os.Stat, os.Lstat, os.Remove, os.Symlink and os.Rename observe.         *)
(***************************************************************************)
EXTENDS Integers, Sequences, FiniteSets, TLC

\* A local variable of the code: v is computed once and the body F reads it.
Bind(v, F(_)) == CHOOSE y \in {F(z) : z \in {v}} : TRUE

(***************************************************************************)
(* Strings                                                                 *)
(***************************************************************************)

\* Byte values of the characters the model uses (sort.Strings compares bytes).
CharCode(c) ==
  CASE c = " " -> 32
    [] c = "*" -> 42
    [] c = "." -> 46
    [] c = "/" -> 47
    [] c = "?" -> 63
    [] c = "a" -> 97
    [] c = "d" -> 100
    [] c = "g" -> 103
    [] c = "i" -> 105
    [] c = "n" -> 110
    [] c = "t" -> 116
    [] OTHER -> 120

RECURSIVE StrLess(_, _)
StrLess(s, t) ==
  IF t = <<>> THEN FALSE
  ELSE IF s = <<>> THEN TRUE
  ELSE IF CharCode(Head(s)) # CharCode(Head(t))
       THEN CharCode(Head(s)) < CharCode(Head(t))
  ELSE StrLess(Tail(s), Tail(t))

RECURSIVE TrimLeft(_)
TrimLeft(s) ==
  IF s # <<>> /\ Head(s) = " " THEN TrimLeft(Tail(s)) ELSE s

RECURSIVE TrimRight(_)
TrimRight(s) ==
  IF s # <<>> /\ s[Len(s)] = " " THEN TrimRight(SubSeq(s, 1, Len(s) - 1)) ELSE s

TrimSpace(s) == TrimRight(TrimLeft(s))

HasPrefix(s, p) == Len(s) >= Len(p) /\ SubSeq(s, 1, Len(p)) = p

Contains(s, sub) ==
  \E i \in 1..(Len(s) - Len(sub) + 1) : SubSeq(s, i, i + Len(sub) - 1) = sub

\* The non-empty runs of non-separator characters of s.
RECURSIVE SplitFrom(_, _, _)
SplitFrom(s, acc, cur) ==
  IF s = <<>> THEN (IF cur = <<>> THEN acc ELSE Append(acc, cur))
  ELSE IF Head(s) = "/"
       THEN SplitFrom(Tail(s), IF cur = <<>> THEN acc ELSE Append(acc, cur), <<>>)
  ELSE SplitFrom(Tail(s), acc, Append(cur, Head(s)))

Components(s) == SplitFrom(s, <<>>, <<>>)

RECURSIVE JoinSlash(_)
JoinSlash(cs) ==
  IF cs = <<>> THEN <<>>
  ELSE IF Len(cs) = 1 THEN cs[1]
  ELSE cs[1] \o <<"/">> \o JoinSlash(Tail(cs))

\* sort.Strings followed by unique, on a set of strings.
RECURSIVE SortStrings(_)
SortStrings(S) ==
  IF S = {} THEN <<>>
  ELSE LET m == CHOOSE x \in S : \A y \in S \ {x} : StrLess(x, y)
       IN <<m>> \o SortStrings(S \ {m})

SeqToSet(q) == {q[i] : i \in 1..Len(q)}

(***************************************************************************)
(* Path classifier                                                         *)
(***************************************************************************)

Dot == <<".">>
DotDot == <<".", ".">>

\* The component loop of path.Clean / filepath.Clean.
RECURSIVE CleanComps(_, _, _)
CleanComps(cs, out, rooted) ==
  IF cs = <<>> THEN out
  ELSE LET c == Head(cs) IN
    IF c = Dot THEN CleanComps(Tail(cs), out, rooted)
    ELSE IF c = DotDot
      THEN IF out # <<>> /\ out[Len(out)] # DotDot
             THEN CleanComps(Tail(cs), SubSeq(out, 1, Len(out) - 1), rooted)
           ELSE IF rooted THEN CleanComps(Tail(cs), out, rooted)
           ELSE CleanComps(Tail(cs), Append(out, DotDot), rooted)
    ELSE CleanComps(Tail(cs), Append(out, c), rooted)

\* path.Clean that leaves its argument as it is.
pathCleanNone(s) == s

pathClean(s) ==
  IF s = <<>> THEN Dot
  ELSE LET rooted == Head(s) = "/"
           cs == CleanComps(Components(s), <<>>, rooted)
       IN IF rooted THEN <<"/">> \o JoinSlash(cs)
          ELSE IF cs = <<>> THEN Dot
          ELSE JoinSlash(cs)

GitDir == <<".", "g", "i", "t">>

isMetadataPath(rel) == rel = GitDir \/ HasPrefix(rel, GitDir \o <<"/">>)

\* filepath.ToSlash replaces os.PathSeparator by '/'; the separator is '/'
\* already on the platform modelled, so no character changes.
ToSlash(s) == [i \in 1..Len(s) |-> IF s[i] = "/" THEN "/" ELSE s[i]]

normalizeManagedPath(raw) ==
  LET rel == pathClean(ToSlash(TrimSpace(raw))) IN
    IF rel = Dot \/ rel = <<>> THEN [ok |-> FALSE, rel |-> <<>>]
    ELSE IF HasPrefix(rel, <<"/">>) THEN [ok |-> FALSE, rel |-> <<>>]
    ELSE IF HasPrefix(rel, DotDot \o <<"/">>) \/ Contains(rel, <<"/">> \o DotDot \o <<"/">>)
      THEN [ok |-> FALSE, rel |-> <<>>]
    ELSE IF isMetadataPath(rel) THEN [ok |-> FALSE, rel |-> <<>>]
    ELSE [ok |-> TRUE, rel |-> rel]

\* filepath.Join(base, filepath.FromSlash(rel)) for an absolute base: the
\* cleaned concatenation, as a sequence of components.
Join(base, rel) == CleanComps(base \o Components(rel), <<>>, TRUE)

\* filepath.Dir of an absolute path.
Dir(p) == IF p = <<>> THEN <<>> ELSE SubSeq(p, 1, Len(p) - 1)

(***************************************************************************)
(* Filesystem                                                              *)
(***************************************************************************)

A == <<"a">>
D == <<"d">>

\* XDG_CONFIG_HOME, the repository root and a directory outside both.
xdg == <<<<"x">>>>
repoPath == <<<<"r">>>>
Outside == <<<<"o">>>>

\* Every absolute path the model's filesystem can hold an entry at.
Nodes ==
  {<<>>, xdg, repoPath, Outside} \cup
  {Append(r, c) : r \in {xdg, repoPath, Outside}, c \in {A, D}} \cup
  {r \o <<D, A>> : r \in {xdg, repoPath, Outside}}

\* File contents: two complete contents, their incomplete copies, and the
\* empty content of a file just created or truncated.
Data == {"x", "y"}
Empty == ""
Partial(d) == IF d = "x" THEN "x~" ELSE IF d = "y" THEN "y~" ELSE Empty

Absent == [kind |-> "absent", data |-> "", target |-> <<>>]
File(d) == [kind |-> "file", data |-> d, target |-> <<>>]
DirEntry == [kind |-> "dir", data |-> "", target |-> <<>>]
Link(t) == [kind |-> "link", data |-> "", target |-> t]

Lookup(f, n) == IF n \in DOMAIN f THEN f[n] ELSE Absent

Err(e) == [err |-> e, path |-> <<>>]

\* Kernel path resolution from the directory cur (already resolved) along the
\* components rest; the last component's symlink is followed when followLast.
\* A chain of more symlinks than the filesystem has entries is a loop.
RECURSIVE Walk(_, _, _, _, _)
Walk(f, cur, rest, followLast, fuel) ==
  IF rest = <<>> THEN [err |-> "", path |-> cur]
  ELSE LET c == Head(rest)
           more == Tail(rest)
       IN
    IF c = DotDot THEN Walk(f, Dir(cur), more, followLast, fuel)
    ELSE IF c = Dot THEN Walk(f, cur, more, followLast, fuel)
    ELSE LET n == Append(cur, c)
             e == Lookup(f, n)
         IN
      IF e.kind = "link" /\ (more # <<>> \/ followLast)
        THEN IF fuel = 0 THEN Err("ELOOP")
             ELSE LET t == Walk(f, <<>>, e.target, TRUE, fuel - 1) IN
               IF t.err # "" THEN t
               ELSE IF more = <<>> THEN t
               ELSE IF Lookup(f, t.path).kind = "dir"
                 THEN Walk(f, t.path, more, followLast, fuel)
               ELSE IF Lookup(f, t.path).kind = "absent" THEN Err("ENOENT")
               ELSE Err("ENOTDIR")
      ELSE IF more = <<>> THEN [err |-> "", path |-> n]
      ELSE IF e.kind = "dir" THEN Walk(f, n, more, followLast, fuel)
      ELSE IF e.kind = "absent" THEN Err("ENOENT")
      ELSE Err("ENOTDIR")

Resolve(f, p, followLast) == Walk(f, <<>>, p, followLast, Cardinality(DOMAIN f))

NoInfo(e) == [err |-> e, kind |-> "absent", data |-> "", path |-> <<>>]

InfoAt(f, r) ==
  IF r.err # "" THEN NoInfo(r.err)
  ELSE LET e == Lookup(f, r.path) IN
    IF e.kind = "absent" THEN NoInfo("ENOENT")
    ELSE [err |-> "", kind |-> e.kind, data |-> e.data, path |-> r.path]

osStat(f, p) == InfoAt(f, Resolve(f, p, TRUE))
osLstat(f, p) == InfoAt(f, Resolve(f, p, FALSE))

IsEmptyDir(f, n) ==
  \A m \in DOMAIN f :
    (Len(m) = Len(n) + 1 /\ SubSeq(m, 1, Len(n)) = n) => f[m].kind = "absent"

Failed(f, e) == [err |-> e, fs |-> f]
Done(f) == [err |-> "", fs |-> f]

\* os.Remove that reports success and removes nothing.
osRemoveForgotten(f, p) == Done(f)

\* os.Remove: unlink(2), or rmdir(2) of an empty directory; the last
\* component is not followed.
osRemove(f, p) ==
  Bind(Resolve(f, p, FALSE), LAMBDA r :
    IF r.err # "" THEN Failed(f, r.err)
    ELSE IF Lookup(f, r.path).kind = "absent" THEN Failed(f, "ENOENT")
    ELSE IF Lookup(f, r.path).kind = "dir" /\ ~IsEmptyDir(f, r.path)
      THEN Failed(f, "ENOTEMPTY")
    ELSE Done([f EXCEPT ![r.path] = Absent]))

\* os.Symlink(target, p): symlink(2) fails on any existing entry at p.
osSymlink(f, target, p) ==
  Bind(Resolve(f, p, FALSE), LAMBDA r :
    IF r.err # "" THEN Failed(f, r.err)
    ELSE IF Lookup(f, r.path).kind # "absent" THEN Failed(f, "EEXIST")
    ELSE IF r.path \notin DOMAIN f THEN Failed(f, "ENAMETOOLONG")
    ELSE Done([f EXCEPT ![r.path] = Link(target)]))

osMkdir(f, p) ==
  Bind(Resolve(f, p, FALSE), LAMBDA r :
    IF r.err # "" THEN Failed(f, r.err)
    ELSE IF Lookup(f, r.path).kind # "absent" THEN Failed(f, "EEXIST")
    ELSE IF r.path \notin DOMAIN f THEN Failed(f, "ENAMETOOLONG")
    ELSE Done([f EXCEPT ![r.path] = DirEntry]))

\* os.MkdirAll: the fast path on os.Stat, else the parent first and then
\* Mkdir, whose error is forgiven when the path is a directory by then.
RECURSIVE osMkdirAll(_, _)
osMkdirAll(f, p) ==
  Bind(osStat(f, p), LAMBDA st :
    IF st.err = ""
      THEN IF st.kind = "dir" THEN Done(f) ELSE Failed(f, "ENOTDIR")
    ELSE Bind(IF p = <<>> THEN Done(f) ELSE osMkdirAll(f, Dir(p)), LAMBDA up :
      IF up.err # "" THEN up
      ELSE Bind(osMkdir(up.fs, p), LAMBDA mk :
        IF mk.err = "" THEN mk
        ELSE Bind(osLstat(up.fs, p), LAMBDA again :
          IF again.err = "" /\ again.kind = "dir" THEN Done(up.fs) ELSE mk))))

\* The filesystem a path lives on, when the live directory and the repository
\* are on different filesystems: its top-level directory.
DeviceOf(p) == IF p = <<>> THEN <<>> ELSE p[1]

\* os.Rename of a non-directory: rename(2) replaces an existing non-directory
\* destination and fails with EXDEV across filesystems.
osRename(f, src, dst, xd) ==
  Bind(Resolve(f, src, FALSE), LAMBDA rs :
  Bind(Resolve(f, dst, FALSE), LAMBDA rd :
    IF rs.err # "" THEN Failed(f, rs.err)
    ELSE IF rd.err # "" THEN Failed(f, rd.err)
    ELSE IF Lookup(f, rs.path).kind = "absent" THEN Failed(f, "ENOENT")
    ELSE IF xd /\ DeviceOf(rs.path) # DeviceOf(rd.path) THEN Failed(f, "EXDEV")
    ELSE IF rs.path = rd.path THEN Done(f)
    ELSE IF Lookup(f, rs.path).kind = "dir" THEN Failed(f, "EINVAL")
    ELSE IF Lookup(f, rd.path).kind = "dir" THEN Failed(f, "EISDIR")
    ELSE IF rd.path \notin DOMAIN f THEN Failed(f, "ENAMETOOLONG")
    ELSE Done([f EXCEPT ![rd.path] = Lookup(f, rs.path), ![rs.path] = Absent])))

\* os.ReadFile.
osReadFile(f, p) ==
  Bind(osStat(f, p), LAMBDA st :
    IF st.err # "" THEN [err |-> st.err, data |-> ""]
    ELSE IF st.kind # "file" THEN [err |-> "EISDIR", data |-> ""]
    ELSE [err |-> "", data |-> st.data])

\* os.OpenFile(dst, O_CREATE|O_TRUNC|O_WRONLY): follows a symlink at dst,
\* creates the file or empties it.
osCreateTrunc(f, dst) ==
  Bind(Resolve(f, dst, TRUE), LAMBDA r :
    IF r.err # "" THEN [err |-> r.err, fs |-> f, path |-> <<>>]
    ELSE IF Lookup(f, r.path).kind = "dir" THEN [err |-> "EISDIR", fs |-> f, path |-> <<>>]
    ELSE IF r.path \notin DOMAIN f THEN [err |-> "ENAMETOOLONG", fs |-> f, path |-> <<>>]
    ELSE [err |-> "", fs |-> [f EXCEPT ![r.path] = File(Empty)], path |-> r.path])

\* copyFile with io.Copy lost: the destination is created and left empty.
copyFileEmpty(f, src, dst, flt) ==
  Bind(osCreateTrunc(f, dst), LAMBDA op : Done(op.fs))

\* copyFile(src, dst). flt is the set of calls an I/O fault makes fail: "open"
\* (the destination cannot be created) and "copy" (io.Copy fails part-way,
\* leaving an incomplete destination).
copyFile(f, src, dst, flt) ==
  Bind(osStat(f, src), LAMBDA srcInfo :
    IF srcInfo.err # "" THEN Failed(f, srcInfo.err)
    ELSE IF srcInfo.kind # "file" THEN Failed(f, "source is not a regular file")
    ELSE Bind(osMkdirAll(f, Dir(dst)), LAMBDA mk :
      IF mk.err # "" THEN mk
      ELSE IF "open" \in flt THEN Failed(mk.fs, "EACCES")
      ELSE Bind(osCreateTrunc(mk.fs, dst), LAMBDA op :
        IF op.err # "" THEN Failed(mk.fs, op.err)
        ELSE IF "copy" \in flt
          THEN Failed([op.fs EXCEPT ![op.path] =
                         File(Partial(Lookup(op.fs, srcInfo.path).data))], "EIO")
        ELSE Done([op.fs EXCEPT ![op.path] = File(Lookup(op.fs, srcInfo.path).data)]))))

\* moveFile that keeps the source after the copy of the EXDEV fallback.
moveFileKeepSource(f, src, dst, xd, flt) ==
  Bind(IF "rename" \in flt THEN Failed(f, "EACCES") ELSE osRename(f, src, dst, xd), LAMBDA rn :
    IF rn.err = "" THEN rn
    ELSE IF rn.err # "EXDEV" THEN rn
    ELSE copyFile(f, src, dst, flt))

\* moveFile deleting the source whatever the copy did.
moveFileTrustsCopy(f, src, dst, xd, flt) ==
  Bind(IF "rename" \in flt THEN Failed(f, "EACCES") ELSE osRename(f, src, dst, xd), LAMBDA rn :
    IF rn.err = "" THEN rn
    ELSE IF rn.err # "EXDEV" THEN rn
    ELSE Bind(copyFile(f, src, dst, flt), LAMBDA cp : osRemove(cp.fs, src)))

\* moveFile(src, dst): rename, falling back to copy and delete on EXDEV.
moveFile(f, src, dst, xd, flt) ==
  Bind(IF "rename" \in flt THEN Failed(f, "EACCES") ELSE osRename(f, src, dst, xd), LAMBDA rn :
    IF rn.err = "" THEN rn
    ELSE IF rn.err # "EXDEV" THEN rn
    ELSE Bind(copyFile(f, src, dst, flt), LAMBDA cp :
      IF cp.err # "" THEN cp
      ELSE IF "remove" \in flt THEN Failed(cp.fs, "EACCES")
      ELSE osRemove(cp.fs, src)))

\* filesEqual with the comparison lost: any two readable paths are equal.
filesEqualAlways(f, left, right) == [err |-> "", same |-> TRUE]

filesEqual(f, left, right) ==
  Bind(osReadFile(f, left), LAMBDA l :
  Bind(osReadFile(f, right), LAMBDA r :
    IF l.err # "" THEN [err |-> l.err, same |-> FALSE]
    ELSE IF r.err # "" THEN [err |-> r.err, same |-> FALSE]
    ELSE [err |-> "", same |-> l.data = r.data]))

\* filepath.EvalSymlinks of an absolute path: the path with every symlink
\* resolved; an error when an entry on the way is missing or loops.
EvalSymlinks(f, p) ==
  Bind(Resolve(f, p, TRUE), LAMBDA r :
    IF r.err # "" THEN r
    ELSE IF Lookup(f, r.path).kind = "absent" THEN Err("ENOENT")
    ELSE r)

\* symlinkPointsTo that takes every symlink for one to the target.
symlinkPointsToAlways(f, linkPath, targetPath) == [err |-> "", ok |-> TRUE]

symlinkPointsTo(f, linkPath, targetPath) ==
  Bind(EvalSymlinks(f, linkPath), LAMBDA resolved :
    IF resolved.err # "" THEN [err |-> resolved.err, ok |-> FALSE]
    ELSE [err |-> "",
          ok |-> CleanComps(resolved.path, <<>>, TRUE) = CleanComps(targetPath, <<>>, TRUE)])

\* filepath.Rel(base, candidate) for two cleaned absolute paths, as a string.
RECURSIVE CommonPrefixLen(_, _)
CommonPrefixLen(p, q) ==
  IF p = <<>> \/ q = <<>> \/ Head(p) # Head(q) THEN 0
  ELSE 1 + CommonPrefixLen(Tail(p), Tail(q))

filepathRel(base, candidate) ==
  Bind(CommonPrefixLen(base, candidate), LAMBDA k :
  Bind([i \in 1..(Len(base) - k) |-> DotDot] \o SubSeq(candidate, k + 1, Len(candidate)),
       LAMBDA rel : IF rel = <<>> THEN Dot ELSE JoinSlash(rel)))

\* pathWithin with the containment test lost.
pathWithinAlways(base, candidate) == TRUE

pathWithin(base, candidate) ==
  Bind(filepathRel(CleanComps(base, <<>>, TRUE), CleanComps(candidate, <<>>, TRUE)), LAMBDA rel :
    IF rel = Dot THEN TRUE
    ELSE IF rel = DotDot \/ HasPrefix(rel, DotDot \o <<"/">>) THEN FALSE
    ELSE TRUE)

\* symlinkRepoTarget(linkPath, repoPath): os.Readlink, made absolute and
\* cleaned lexically (the model's symlink targets are absolute already).
symlinkRepoTarget(f, linkPath, repo) ==
  Bind(Resolve(f, linkPath, FALSE), LAMBDA r :
    IF r.err # "" THEN [err |-> r.err, inRepo |-> FALSE, target |-> <<>>]
    ELSE IF Lookup(f, r.path).kind # "link"
      THEN [err |-> "EINVAL", inRepo |-> FALSE, target |-> <<>>]
    ELSE Bind(CleanComps(Lookup(f, r.path).target, <<>>, TRUE), LAMBDA targetPath :
      IF ~pathWithin(repo, targetPath) THEN [err |-> "", inRepo |-> FALSE, target |-> <<>>]
      ELSE [err |-> "", inRepo |-> TRUE, target |-> targetPath]))

(***************************************************************************)
(* Glob ignore matcher                                                     *)
(***************************************************************************)

\* The characters globToRegex writes with a backslash before them.
EscapedChars == {".", "+", "(", ")", "|", "[", "]", "{", "}", "^", "$", "\\"}

\* globToRegex: the anchored regular expression as a sequence of tokens.
\* "any" is `.*`, "seg" is `[^/]*`, "one" is `[^/]`, "lit" is a character
\* with a backslash before it, "raw" a character written as it is.
RECURSIVE globTokens(_)
globTokens(p) ==
  IF p = <<>> THEN <<>>
  ELSE IF Head(p) = "*"
    THEN IF Len(p) >= 2 /\ p[2] = "*"
           THEN <<[t |-> "any", c |-> ""]>> \o globTokens(SubSeq(p, 3, Len(p)))
         ELSE <<[t |-> "seg", c |-> ""]>> \o globTokens(Tail(p))
  ELSE IF Head(p) = "?" THEN <<[t |-> "one", c |-> ""]>> \o globTokens(Tail(p))
  ELSE IF Head(p) \in EscapedChars
    THEN <<[t |-> "lit", c |-> Head(p)]>> \o globTokens(Tail(p))
  ELSE <<[t |-> "raw", c |-> Head(p)]>> \o globTokens(Tail(p))

globToRegex(pattern) == globTokens(TrimSpace(pattern))

\* regexp.MatchString of the anchored expression (paths hold no newline). A
\* character written as it is matches itself, except `.`, which matches any
\* character; the other characters with a meaning of their own in an
\* expression are all in EscapedChars or handled as wildcards.
RECURSIVE regexMatch(_, _)
regexMatch(re, s) ==
  IF re = <<>> THEN s = <<>>
  ELSE LET tok == Head(re) IN
    IF tok.t = "any"
      THEN \E k \in 0..Len(s) : regexMatch(Tail(re), SubSeq(s, k + 1, Len(s)))
    ELSE IF tok.t = "seg"
      THEN \E k \in 0..Len(s) :
             /\ \A j \in 1..k : s[j] # "/"
             /\ regexMatch(Tail(re), SubSeq(s, k + 1, Len(s)))
    ELSE IF tok.t = "one"
      THEN s # <<>> /\ Head(s) # "/" /\ regexMatch(Tail(re), Tail(s))
    ELSE IF tok.t = "raw" /\ tok.c = "."
      THEN s # <<>> /\ regexMatch(Tail(re), Tail(s))
    ELSE s # <<>> /\ Head(s) = tok.c /\ regexMatch(Tail(re), Tail(s))

NodeModules == <<"n", "o", "d", "e", "_", "m", "o", "d", "u", "l", "e", "s">>

defaultIgnoreGlobs ==
  { NodeModules,
    NodeModules \o <<"/", "*", "*">>,
    <<"*", "*", "/">> \o NodeModules,
    <<"*", "*", "/">> \o NodeModules \o <<"/", "*", "*">> }

\* sanitizeIgnoreGlobs: each pattern trimmed, its backslashes turned into
\* slashes and one leading `./` taken off; the empty ones dropped.
sanitizeIgnoreGlobs(patterns) ==
  {LET q == [i \in 1..Len(TrimSpace(p)) |->
               IF TrimSpace(p)[i] = "\\" THEN "/" ELSE TrimSpace(p)[i]]
   IN IF HasPrefix(q, <<".", "/">>) THEN SubSeq(q, 3, Len(q)) ELSE q :
     p \in {x \in patterns : TrimSpace(x) # <<>>}}

\* compileGlobMatchers fails: globToRegex refuses an empty pattern.
compileGlobMatchersFails(patterns) ==
  \E p \in sanitizeIgnoreGlobs(patterns) : TrimSpace(p) = <<>>

\* compileGlobMatchers: one compiled expression per sanitized pattern.
compileGlobMatchers(patterns) == {globToRegex(p) : p \in sanitizeIgnoreGlobs(patterns)}

\* No path is ever ignored.
shouldIgnorePathNever(relRaw, isDir, matchers) == FALSE

shouldIgnorePath(relRaw, isDir, matchers) ==
  LET rel == TrimSpace(ToSlash(relRaw)) IN
    IF rel = <<>> \/ rel = Dot THEN FALSE
    ELSE \E m \in matchers :
           \/ regexMatch(m, rel)
           \/ isDir /\ regexMatch(m, rel \o <<"/">>)

(***************************************************************************)
(* Managed-set resolver                                                    *)
(***************************************************************************)

\* gitTrackedFiles: the lines of `git ls-files`, each normalized, the ones
\* that fail dropped, sorted and deduplicated.
gitTrackedFiles(lines) ==
  SortStrings({normalizeManagedPath(l).rel :
                 l \in {x \in lines : TrimSpace(x) # <<>> /\ normalizeManagedPath(x).ok}})

loadManagedFiles(lines) ==
  SortStrings({r \in SeqToSet(gitTrackedFiles(lines)) : ~isMetadataPath(r)})

(***************************************************************************)
(* Reconciliation engine (doctor)                                          *)
(***************************************************************************)

\* type doctorReport
EmptyDoctorReport ==
  [didNotTouch |-> <<>>, replacedWithSymlink |-> <<>>,
   unlinkedOrphanSymlink |-> <<>>, requireManualResolve |-> <<>>]

\* The managed-path pass that leaves every path to the user.
cmdDoctorPathManualOnly(f, rel, flt) == [fs |-> f, bucket |-> "requireManualResolve"]

\* One iteration of the managed-path loop of cmdDoctorWithRepo for the managed
\* path rel. flt is the set of calls made to fail by an I/O fault. The result
\* is the filesystem after the iteration and the bucket rel is appended to.
cmdDoctorPath(f, rel, flt) ==
  LET repoFile == Join(repoPath, rel)
      liveFile == Join(xdg, rel)
      manual(g) == [fs |-> g, bucket |-> "requireManualResolve"]
      replaced(g) == [fs |-> g, bucket |-> "replacedWithSymlink"]
  IN
  Bind(osStat(f, repoFile), LAMBDA repoInfo :
  IF repoInfo.err # "" \/ repoInfo.kind # "file" THEN manual(f)
  ELSE Bind(IF "lstat" \in flt THEN NoInfo("EACCES") ELSE osLstat(f, liveFile), LAMBDA liveInfo :
    IF liveInfo.err # ""
      THEN IF liveInfo.err # "ENOENT" THEN manual(f)
           ELSE Bind(IF "mkdir" \in flt THEN Failed(f, "EACCES")
                     ELSE osMkdirAll(f, Dir(liveFile)), LAMBDA mk :
             IF mk.err # "" THEN manual(mk.fs)
             ELSE Bind(IF "symlink" \in flt THEN Failed(mk.fs, "EACCES")
                       ELSE osSymlink(mk.fs, repoFile, liveFile), LAMBDA sl :
               IF sl.err # "" THEN manual(sl.fs) ELSE replaced(sl.fs)))
    ELSE IF liveInfo.kind = "link"
      THEN Bind(symlinkPointsTo(f, liveFile, repoFile), LAMBDA pt :
             IF pt.err # "" THEN manual(f)
             ELSE IF pt.ok THEN [fs |-> f, bucket |-> "didNotTouch"]
             ELSE manual(f))
    ELSE IF liveInfo.kind # "file" THEN manual(f)
    ELSE Bind(IF "read" \in flt THEN [err |-> "EACCES", same |-> FALSE]
              ELSE filesEqual(f, repoFile, liveFile), LAMBDA eq :
      IF eq.err # "" THEN manual(f)
      ELSE IF ~eq.same THEN manual(f)
      ELSE Bind(IF "remove" \in flt THEN Failed(f, "EACCES")
                ELSE osRemove(f, liveFile), LAMBDA rm :
        IF rm.err # "" THEN manual(rm.fs)
        ELSE Bind(IF "symlink" \in flt THEN Failed(rm.fs, "EACCES")
                  ELSE osSymlink(rm.fs, repoFile, liveFile), LAMBDA sl :
          IF sl.err # "" THEN manual(sl.fs) ELSE replaced(sl.fs))))))

\* The names of the entries of the directory dir.
ChildNames(f, dir) ==
  {m[Len(m)] : m \in {n \in DOMAIN f : /\ Len(n) = Len(dir) + 1
                                        /\ SubSeq(n, 1, Len(dir)) = dir
                                        /\ f[n].kind # "absent"}}

\* filepath.Rel(xdg, fullPath) then filepath.ToSlash, for a path below xdg.
RelOf(base, fullPath) == ToSlash(filepathRel(base, fullPath))

\* The symlinks filepath.WalkDir hands to the callback below dir, in its
\* lexical order; a directory the ignore matchers match is not entered (the
\* callback's filepath.SkipDir) and a symlink is never followed. On any other
\* entry the callback returns at once, and the pass neither creates a symlink
\* nor changes an entry it has not visited yet.
RECURSIVE WalkEntries(_, _, _, _, _)
WalkEntries(f, root, dir, names, matchers) ==
  IF names = <<>> THEN <<>>
  ELSE LET p == Append(dir, Head(names))
           here == IF f[p].kind = "link" THEN <<p>>
                   ELSE IF f[p].kind # "dir" THEN <<>>
                   ELSE IF shouldIgnorePath(RelOf(root, p), TRUE, matchers) THEN <<>>
                   ELSE WalkEntries(f, root, p, SortStrings(ChildNames(f, p)), matchers)
       IN here \o WalkEntries(f, root, dir, Tail(names), matchers)

WalkDir(f, root, matchers) ==
  Bind(osLstat(f, root), LAMBDA info :
    IF info.err # "" \/ info.kind # "dir" THEN <<>>
    ELSE WalkEntries(f, root, root, SortStrings(ChildNames(f, root)), matchers))

\* The regular files the callback of scanXDGRegularFiles collects below dir:
\* a directory the ignore matchers match is not entered, a file they match is
\* left out, and so is an entry that is not a regular file (d.Info of a
\* symlink describes the link).
RECURSIVE ScanEntries(_, _, _, _, _)
ScanEntries(f, root, dir, names, matchers) ==
  IF names = <<>> THEN <<>>
  ELSE LET p == Append(dir, Head(names))
           here == IF f[p].kind = "dir"
                     THEN IF shouldIgnorePath(RelOf(root, p), TRUE, matchers) THEN <<>>
                          ELSE ScanEntries(f, root, p, SortStrings(ChildNames(f, p)), matchers)
                   ELSE IF shouldIgnorePath(RelOf(root, p), FALSE, matchers) THEN <<>>
                   ELSE IF f[p].kind # "file" THEN <<>>
                   ELSE IF ~normalizeManagedPath(RelOf(root, p)).ok THEN <<>>
                   ELSE <<normalizeManagedPath(RelOf(root, p)).rel>>
       IN here \o ScanEntries(f, root, dir, Tail(names), matchers)

scanXDGRegularFiles(f, root, matchers) ==
  Bind(osLstat(f, root), LAMBDA info :
    IF info.err # "" \/ info.kind # "dir" THEN <<>>
    ELSE SortStrings(SeqToSet(
           ScanEntries(f, root, root, SortStrings(ChildNames(f, root)), matchers))))

DanglingNote == " (removed dangling symlink)"

\* The callback of reconcileOrphanRepoSymlinks for the non-directory entry
\* fullPath: the filesystem afterwards, the bucket the entry is reported in
\* ("" when it is not reported) and the report item.
orphanCallback(f, repo, root, managed, matchers, fullPath, flt) ==
  Bind(RelOf(root, fullPath), LAMBDA rel0 :
  Bind(normalizeManagedPath(rel0), LAMBDA norm :
  LET rel == norm.rel
      skip == [fs |-> f, bucket |-> "", path |-> rel0, note |-> ""]
      manual(g) == [fs |-> g, bucket |-> "requireManualResolve", path |-> rel, note |-> ""]
      unlinked(g, n) == [fs |-> g, bucket |-> "unlinkedOrphanSymlink", path |-> rel, note |-> n]
  IN
  IF shouldIgnorePath(rel0, FALSE, matchers) THEN skip
  ELSE IF Lookup(f, fullPath).kind # "link" THEN skip
  ELSE IF ~norm.ok THEN skip
  ELSE IF rel \in managed THEN skip
  ELSE Bind(symlinkRepoTarget(f, fullPath, repo), LAMBDA tg :
    IF tg.err # "" \/ ~tg.inRepo THEN skip
    ELSE Bind(IF "stat" \in flt THEN NoInfo("EACCES") ELSE osStat(f, tg.target),
              LAMBDA targetInfo :
      IF targetInfo.err # ""
        THEN IF targetInfo.err = "ENOENT"
               THEN Bind(IF "remove" \in flt THEN Failed(f, "EACCES")
                         ELSE osRemove(f, fullPath), LAMBDA rm :
                      IF rm.err # "" THEN manual(rm.fs)
                      ELSE unlinked(rm.fs, DanglingNote))
             ELSE manual(f)
      ELSE IF targetInfo.kind # "file" THEN manual(f)
      ELSE Bind(IF "remove" \in flt THEN Failed(f, "EACCES") ELSE osRemove(f, fullPath),
                LAMBDA rm :
        IF rm.err # "" THEN manual(rm.fs)
        ELSE Bind(copyFile(rm.fs, tg.target, fullPath, flt), LAMBDA cp :
          IF cp.err # "" THEN manual(cp.fs) ELSE unlinked(cp.fs, ""))))))) 

\* sort.Strings on a report bucket. The items of one walk have distinct paths,
\* and the note starts with a space, which sorts below every character of the
\* model's paths: the order of the items is the order of their paths.
RECURSIVE SortItems(_)
SortItems(S) ==
  IF S = {} THEN <<>>
  ELSE LET m == CHOOSE x \in S : \A y \in S \ {x} : StrLess(x.path, y.path)
       IN <<m>> \o SortItems(S \ {m})

(***************************************************************************)
(* Track / untrack / unlink engine                                         *)
(***************************************************************************)

\* type operationReport; an item is the path and the text after "path: ".
EmptyOperationReport ==
  [changed |-> FALSE, succeeded |-> <<>>, skipped |-> <<>>, failed |-> <<>>]

\* The faults that hit the compensating moveFile of trackSelections.
Rollback(flt) ==
  {s \in {"rename", "open", "copy", "remove"} :
     \/ s = "rename" /\ "rollback.rename" \in flt
     \/ s = "open" /\ "rollback.open" \in flt
     \/ s = "copy" /\ "rollback.copy" \in flt
     \/ s = "remove" /\ "rollback.remove" \in flt}

\* trackSelections without the test for an existing repository file.
trackOneNoConflictCheck(f, managed, raw, xd, flt) ==
  Bind(normalizeManagedPath(raw), LAMBDA norm :
    IF ~norm.ok \/ norm.rel \in managed \/ osLstat(f, Join(xdg, norm.rel)).kind # "file"
      THEN [fs |-> f, bucket |-> "failed", path |-> raw, reason |-> "invalid path"]
    ELSE Bind(moveFile(f, Join(xdg, norm.rel), Join(repoPath, norm.rel), xd, flt), LAMBDA mv :
      Bind(osSymlink(mv.fs, Join(repoPath, norm.rel), Join(xdg, norm.rel)), LAMBDA sl :
        [fs |-> sl.fs, bucket |-> "succeeded", path |-> norm.rel, reason |-> ""])))

\* One iteration of the loop of trackSelections for the selection raw: the
\* filesystem afterwards, the bucket of the report the item goes to, and the
\* item. (The error of the compensating moveFile is dropped: `_ =`.)
trackOne(f, managed, raw, xd, flt) ==
  Bind(normalizeManagedPath(raw), LAMBDA norm :
  LET rel == norm.rel
      liveFile == Join(xdg, rel)
      repoFile == Join(repoPath, rel)
      failed(g, why) == [fs |-> g, bucket |-> "failed", path |-> rel, reason |-> why]
      skipped(why) == [fs |-> f, bucket |-> "skipped", path |-> rel, reason |-> why]
  IN
  IF ~norm.ok THEN [fs |-> f, bucket |-> "failed", path |-> raw, reason |-> "invalid path"]
  ELSE IF rel \in managed THEN skipped("already tracked")
  ELSE Bind(osLstat(f, liveFile), LAMBDA liveInfo :
    IF liveInfo.err # "" THEN failed(f, "source file missing")
    ELSE IF liveInfo.kind # "file" THEN skipped("source is not a regular file")
    ELSE Bind(osStat(f, repoFile), LAMBDA repoInfo :
      IF repoInfo.err = "" THEN failed(f, "repo file already exists")
      ELSE IF repoInfo.err # "ENOENT" THEN failed(f, "repo file check failed")
      ELSE Bind(IF "mkdirRepo" \in flt THEN Failed(f, "EACCES")
                ELSE osMkdirAll(f, Dir(repoFile)), LAMBDA mk :
        IF mk.err # "" THEN failed(mk.fs, "create repo dir")
        ELSE Bind(moveFile(mk.fs, liveFile, repoFile, xd, flt), LAMBDA mv :
          IF mv.err # "" THEN failed(mv.fs, "move file")
          ELSE Bind(IF "mkdirLive" \in flt THEN Failed(mv.fs, "EACCES")
                    ELSE osMkdirAll(mv.fs, Dir(liveFile)), LAMBDA ml :
            IF ml.err # ""
              THEN failed(moveFile(ml.fs, repoFile, liveFile, xd, Rollback(flt)).fs,
                          "restore after mkdir failure")
            ELSE Bind(IF "symlink" \in flt THEN Failed(ml.fs, "EACCES")
                      ELSE osSymlink(ml.fs, repoFile, liveFile), LAMBDA sl :
              IF sl.err # ""
                THEN failed(moveFile(sl.fs, repoFile, liveFile, xd, Rollback(flt)).fs,
                            "create symlink")
              ELSE [fs |-> sl.fs, bucket |-> "succeeded", path |-> rel, reason |-> ""])))))))

ensureLiveCopyForRemove(f, repoFile, liveFile, flt) ==
  Bind(IF "lstat" \in flt THEN NoInfo("EACCES") ELSE osLstat(f, liveFile), LAMBDA liveInfo :
    IF liveInfo.err # ""
      THEN IF liveInfo.err # "ENOENT" THEN Failed(f, "inspect live file")
           ELSE Bind(IF "mkdir" \in flt THEN Failed(f, "EACCES")
                     ELSE osMkdirAll(f, Dir(liveFile)), LAMBDA mk :
             IF mk.err # "" THEN Failed(mk.fs, "create live dir")
             ELSE Bind(copyFile(mk.fs, repoFile, liveFile, flt), LAMBDA cp :
               IF cp.err # "" THEN Failed(cp.fs, "copy repo file to live location")
               ELSE Done(cp.fs)))
    ELSE IF liveInfo.kind = "link"
      THEN Bind(symlinkPointsTo(f, liveFile, repoFile), LAMBDA pt :
             IF pt.err # "" THEN Failed(f, "inspect symlink")
             ELSE IF ~pt.ok THEN Failed(f, "live symlink points elsewhere")
             ELSE Bind(IF "remove" \in flt THEN Failed(f, "EACCES")
                       ELSE osRemove(f, liveFile), LAMBDA rm :
               IF rm.err # "" THEN Failed(rm.fs, "remove live symlink")
               ELSE Bind(copyFile(rm.fs, repoFile, liveFile, flt), LAMBDA cp :
                 IF cp.err # "" THEN Failed(cp.fs, "copy repo file to live location")
                 ELSE Done(cp.fs))))
    ELSE IF liveInfo.kind # "file" THEN Failed(f, "live path is not a regular file")
    ELSE Done(f))

\* removeEmptyDirsUpward that does not stop at the root.
RECURSIVE removeEmptyDirsPastRoot(_, _, _)
removeEmptyDirsPastRoot(f, root, dir) ==
  IF dir = <<>> THEN f
  ELSE IF ChildNames(f, dir) # {} \/ osRemove(f, dir).err # "" THEN f
  ELSE removeEmptyDirsPastRoot(osRemove(f, dir).fs, root, Dir(dir))

\* removeEmptyDirsUpward that leaves every directory in place.
removeEmptyDirsNone(f, root, dir) == f

\* removeEmptyDirsUpward(root, dir): the filesystem afterwards.
RECURSIVE removeEmptyDirsUpward(_, _, _)
removeEmptyDirsUpward(f, root, dir) ==
  IF dir = root \/ dir = <<>> THEN f
  ELSE Bind(osStat(f, dir), LAMBDA entries :
    IF entries.err # "" \/ entries.kind # "dir" THEN f
    ELSE IF ChildNames(f, entries.path) # {} THEN f
    ELSE Bind(osRemove(f, dir), LAMBDA rm :
      IF rm.err # "" THEN f
      ELSE removeEmptyDirsUpward(rm.fs, root, Dir(dir))))

\* One iteration of the loop of cmdRemove. (removeEmptyDirsUpward returns
\* without a word when it cannot read or remove a directory: fault "prune".)
removeOne(f, raw, flt) ==
  Bind(normalizeManagedPath(raw), LAMBDA norm :
  LET rel == norm.rel
      repoFile == Join(repoPath, rel)
      liveFile == Join(xdg, rel)
      failed(g, why) == [fs |-> g, bucket |-> "failed", path |-> rel, reason |-> why]
  IN
  IF ~norm.ok THEN [fs |-> f, bucket |-> "failed", path |-> raw, reason |-> "invalid path"]
  ELSE IF osStat(f, repoFile).err # "" THEN failed(f, "repo file missing")
  ELSE Bind(ensureLiveCopyForRemove(f, repoFile, liveFile, flt), LAMBDA lc :
    IF lc.err # "" THEN failed(lc.fs, lc.err)
    ELSE Bind(IF "removeRepo" \in flt THEN Failed(lc.fs, "EACCES")
              ELSE osRemove(lc.fs, repoFile), LAMBDA rm :
      IF rm.err # "" THEN failed(rm.fs, "remove repo file")
      ELSE [fs |-> IF "prune" \in flt THEN rm.fs
                   ELSE removeEmptyDirsUpward(rm.fs, CleanComps(repoPath, <<>>, TRUE),
                                              CleanComps(Dir(repoFile), <<>>, TRUE)),
            bucket |-> "succeeded", path |-> rel, reason |-> ""])))

\* One iteration of the loop of cmdUnlink.
unlinkOne(f, raw, flt) ==
  Bind(normalizeManagedPath(raw), LAMBDA norm :
  LET rel == norm.rel
      repoFile == Join(repoPath, rel)
      liveFile == Join(xdg, rel)
      failed(g, why) == [fs |-> g, bucket |-> "failed", path |-> rel, reason |-> why]
      skipped(why) == [fs |-> f, bucket |-> "skipped", path |-> rel, reason |-> why]
  IN
  IF ~norm.ok THEN [fs |-> f, bucket |-> "failed", path |-> raw, reason |-> "invalid path"]
  ELSE Bind(osLstat(f, liveFile), LAMBDA liveInfo :
    IF liveInfo.err # "" THEN skipped("live file missing")
    ELSE IF liveInfo.kind # "link" THEN skipped("live file is not a symlink")
    ELSE Bind(symlinkPointsTo(f, liveFile, repoFile), LAMBDA pt :
      IF pt.err # "" \/ ~pt.ok THEN skipped("symlink does not point to repo file")
      ELSE Bind(IF "remove" \in flt THEN Failed(f, "EACCES")
                ELSE osRemove(f, liveFile), LAMBDA rm :
        IF rm.err # "" THEN failed(rm.fs, "remove symlink")
        ELSE Bind(copyFile(rm.fs, repoFile, liveFile, flt), LAMBDA cp :
          IF cp.err # "" THEN failed(cp.fs, "copy file")
          ELSE [fs |-> cp.fs, bucket |-> "succeeded", path |-> rel, reason |-> ""])))))

\* The report started afresh at every iteration: the items of the earlier
\* paths are lost.
ReportedAlone(rep, r) ==
  [EmptyOperationReport EXCEPT ![r.bucket] = <<[path |-> r.path, reason |-> r.reason]>>,
                               !.changed = (r.bucket = "succeeded")]

\* The report with the item of one iteration appended to its bucket.
Reported(rep, r) ==
  [rep EXCEPT ![r.bucket] = Append(@, [path |-> r.path, reason |-> r.reason]),
              !.changed = @ \/ r.bucket = "succeeded"]

\* The paths `git ls-files` prints once `git add -A` has staged the work tree:
\* every file and symlink below the repository root.
WorktreeFiles(f) ==
  {RelOf(repoPath, n) :
     n \in {m \in DOMAIN f : /\ Len(m) > Len(repoPath)
                             /\ SubSeq(m, 1, Len(repoPath)) = repoPath
                             /\ f[m].kind \in {"file", "link"}}}

(***************************************************************************)
(* State                                                                   *)
(***************************************************************************)

VARIABLES
  fs,           \* the filesystem: entry at every path of Nodes
  tracked,      \* the lines `git ls-files` prints in the repository
  ignoreGlobs,  \* the ignore patterns in force (configuredIgnoreMatchers)
  xdev,         \* the live directory and the repository are on different filesystems
  maxPick,      \* how many lines the user marks in the selector at most
  arg,          \* the argument of a function called on its own, <<>> inside a command
  res,          \* the results of the calls of that function, oldest first
  pc,           \* the command in progress and its phase, "idle" between commands
  todo,         \* what the loop in progress has still to visit
  managedSet,   \* the in-memory managed set of the command in progress
  report,       \* the report the command in progress has built so far
  orphanReport, \* the report reconcileOrphanRepoSymlinks has built so far
  opReport,     \* the report track, untrack or unlink has built so far
  start,        \* the filesystem and managed list when the command started
  hist,         \* the finished commands, oldest first
  stepFault,    \* an I/O fault changed the outcome of the last loop iteration
  runsLeft      \* how many more commands the behaviour starts

vars ==
  <<fs, tracked, ignoreGlobs, xdev, maxPick, arg, res, pc, todo, managedSet, report,
    orphanReport, opReport, start, hist, stepFault, runsLeft>>

RelA == <<"a">>
RelDA == <<"d", "/", "a">>
RelD == <<"d">>

\* A symlink target outside the repository whose uncleaned form starts at the
\* repository root.
OutsideViaRepo == repoPath \o <<DotDot>> \o Join(Outside, RelA)

LiveChoicesA ==
  {Absent, File("x"), File("y"), DirEntry,
   Link(Join(repoPath, RelA)), Link(Join(repoPath, RelD)), Link(OutsideViaRepo)}

LiveChoicesD ==
  {Absent, DirEntry, File("x"), Link(Join(repoPath, RelD)), Link(Outside)}

LiveChoicesDA ==
  {Absent, File("x"), File("y"), Link(Join(repoPath, RelDA)), Link(Join(repoPath, RelA))}

RepoChoicesA == {Absent, File("x")}
RepoChoicesD == {Absent, DirEntry}
RepoChoicesDA == {Absent, File("x")}

\* The filesystem with the given entries below the live directory and the
\* repository; the directory outside both holds one file.
Layout(la, ld, lda, ra, rd, rda) ==
  [n \in Nodes |->
     IF n \in {<<>>, xdg, repoPath, Outside} THEN DirEntry
     ELSE IF n = Join(xdg, RelA) THEN la
     ELSE IF n = Join(xdg, RelD) THEN ld
     ELSE IF n = Join(xdg, RelDA) THEN lda
     ELSE IF n = Join(repoPath, RelA) THEN ra
     ELSE IF n = Join(repoPath, RelD) THEN rd
     ELSE IF n = Join(repoPath, RelDA) THEN rda
     ELSE IF n = Join(Outside, RelA) THEN File("y")
     ELSE Absent]

Layouts ==
  {Layout(la, ld, lda, ra, rd, rda) :
     la \in LiveChoicesA, ld \in LiveChoicesD, lda \in LiveChoicesDA,
     ra \in RepoChoicesA, rd \in RepoChoicesD, rda \in RepoChoicesDA}

\* An entry exists only in a directory.
WellFormed(f) ==
  \A n \in DOMAIN f : (n # <<>> /\ f[n].kind # "absent") => f[Dir(n)].kind = "dir"

Idle ==
  /\ pc = "idle"
  /\ todo = <<>>
  /\ managedSet = {}
  /\ report = EmptyDoctorReport
  /\ orphanReport = EmptyDoctorReport
  /\ opReport = EmptyOperationReport
  /\ start = [fs |-> fs, managed |-> <<>>, selected |-> <<>>, picker |-> -1, faulted |-> FALSE]
  /\ stepFault = FALSE

\* How many commands one behaviour runs.
MaxRuns == 1

\* How many lines the selector prints at most.
MaxSelected == 1

\* The state before the first of n commands: any layout of the live directory
\* and the repository, any set of tracked paths.
Start(n) ==
  /\ fs \in {f \in Layouts : WellFormed(f)}
  /\ tracked \in SUBSET {RelA, RelDA}
  /\ ignoreGlobs \in {defaultIgnoreGlobs, {<<"d", "/", "*", "*">>}}
  /\ ignoreGlobs # defaultIgnoreGlobs => fs[Join(xdg, RelDA)].kind = "link"
  /\ xdev = FALSE
  /\ maxPick = MaxSelected
  /\ arg = <<>>
  /\ res = <<>>
  /\ hist = <<>>
  /\ runsLeft = n
  /\ Idle

Init == Start(MaxRuns)

(***************************************************************************)
(* doctor                                                                  *)
(***************************************************************************)

ManagedFaults == {{}, {"lstat"}, {"mkdir"}, {"symlink"}, {"read"}, {"remove"}}
OrphanFaults == {{}, {"stat"}, {"remove"}, {"open"}, {"copy"}}

\* The command returns: its record is kept and the process is idle again.
Finish(cmd, st, f, rep, exit, complete) ==
  /\ hist' = Append(hist, [cmd |-> cmd, before |-> st.fs, after |-> f,
                           managed |-> st.managed, selected |-> st.selected,
                           picker |-> st.picker,
                           report |-> rep, exit |-> exit,
                           complete |-> complete, faulted |-> st.faulted,
                           managedPass |-> report, orphanPass |-> orphanReport,
                           ignore |-> ignoreGlobs])
  /\ pc' = "idle"
  /\ todo' = <<>>
  /\ managedSet' = {}
  /\ report' = EmptyDoctorReport
  /\ orphanReport' = EmptyDoctorReport
  /\ opReport' = EmptyOperationReport
  /\ start' = [fs |-> f, managed |-> <<>>, selected |-> <<>>, picker |-> -1, faulted |-> FALSE]
  /\ stepFault' = FALSE

\* cmdDoctorWithRepo with no tracked file: "No tracked files found."
DoctorNoTracked ==
  /\ pc = "idle"
  /\ runsLeft > 0
  /\ runsLeft' = runsLeft - 1
  /\ loadManagedFiles(tracked) = <<>>
  /\ Finish("doctor", [fs |-> fs, managed |-> <<>>, selected |-> <<>>, picker |-> -1, faulted |-> FALSE],
            fs, EmptyDoctorReport, "ok", FALSE)
  /\ UNCHANGED <<fs, tracked, ignoreGlobs, xdev, maxPick, arg, res>>

\* cmdDoctorWithRepo, up to the managed-path loop.
DoctorBegin ==
  /\ pc = "idle"
  /\ runsLeft > 0
  /\ runsLeft' = runsLeft - 1
  /\ \E managed \in {loadManagedFiles(tracked)} :
       /\ managed # <<>>
       /\ todo' = managed
       /\ managedSet' = SeqToSet(managed)
       /\ start' = [fs |-> fs, managed |-> managed, selected |-> <<>>, picker |-> -1, faulted |-> FALSE]
  /\ pc' = "doctor.managed"
  /\ report' = EmptyDoctorReport
  /\ orphanReport' = EmptyDoctorReport
  /\ stepFault' = FALSE
  /\ UNCHANGED <<fs, tracked, ignoreGlobs, xdev, maxPick, arg, res, opReport, hist>>

\* One iteration of the managed-path loop.
DoctorManagedStep ==
  /\ pc = "doctor.managed"
  /\ todo # <<>>
  /\ \E flt \in ManagedFaults :
       \E r \in {cmdDoctorPath(fs, Head(todo), flt)} :
         /\ fs' = r.fs
         /\ report' = [report EXCEPT ![r.bucket] = Append(@, Head(todo))]
         /\ stepFault' = (r # cmdDoctorPath(fs, Head(todo), {}))
         /\ start' = [start EXCEPT !.faulted = @ \/ stepFault']
  /\ todo' = Tail(todo)
  /\ UNCHANGED <<tracked, ignoreGlobs, xdev, maxPick, arg, res, pc, managedSet, orphanReport, opReport, hist,
                 runsLeft>>

\* configuredIgnoreMatchers fails after the managed-path loop: the command
\* returns the error without the orphan pass and without printing the report.
DoctorConfigError ==
  /\ pc = "doctor.managed"
  /\ todo = <<>>
  /\ Finish("doctor", [start EXCEPT !.faulted = TRUE], fs, report, "error", FALSE)
  /\ UNCHANGED <<fs, tracked, ignoreGlobs, xdev, maxPick, arg, res, runsLeft>>

\* reconcileOrphanRepoSymlinks, up to the walk: the entries it will visit.
DoctorOrphanBegin ==
  /\ pc = "doctor.managed"
  /\ todo = <<>>
  /\ pc' = "doctor.orphan"
  /\ todo' = WalkDir(fs, xdg, compileGlobMatchers(ignoreGlobs))
  /\ stepFault' = FALSE
  /\ UNCHANGED <<fs, tracked, ignoreGlobs, xdev, maxPick, arg, res, managedSet, report, orphanReport, opReport,
                 start, hist, runsLeft>>

\* The walk's callback on one entry. (repoPath = filepath.Clean(repoPath) at
\* the head of reconcileOrphanRepoSymlinks.)
OrphanStepResult(f, flt) ==
  orphanCallback(f, CleanComps(repoPath, <<>>, TRUE), xdg, managedSet,
                 compileGlobMatchers(ignoreGlobs), Head(todo), flt)

DoctorOrphanStep ==
  /\ pc = "doctor.orphan"
  /\ todo # <<>>
  /\ \E flt \in OrphanFaults :
       \E r \in {OrphanStepResult(fs, flt)} :
         /\ fs' = r.fs
         /\ orphanReport' =
              IF r.bucket = "unlinkedOrphanSymlink"
                THEN [orphanReport EXCEPT !.unlinkedOrphanSymlink =
                        Append(@, [path |-> r.path, note |-> r.note])]
              ELSE IF r.bucket = "requireManualResolve"
                THEN [orphanReport EXCEPT !.requireManualResolve = Append(@, r.path)]
              ELSE orphanReport
         /\ stepFault' = (r # OrphanStepResult(fs, {}))
         /\ start' = [start EXCEPT !.faulted = @ \/ stepFault']
  /\ todo' = Tail(todo)
  /\ UNCHANGED <<tracked, ignoreGlobs, xdev, maxPick, arg, res, pc, managedSet, report, opReport, hist,
                 runsLeft>>

\* The end of reconcileOrphanRepoSymlinks (both buckets sorted), the merge of
\* its report into the doctor's, and the command's result.
MergedReport(rep, orphan) ==
  [rep EXCEPT
     !.unlinkedOrphanSymlink = @ \o SortItems(SeqToSet(orphan.unlinkedOrphanSymlink)),
     !.requireManualResolve = @ \o SortStrings(SeqToSet(orphan.requireManualResolve))]

\* The command's result with the manual-resolve test lost.
DoctorExitAlwaysOk(rep) == "ok"

DoctorExit(rep) == IF Len(rep.requireManualResolve) > 0 THEN "error" ELSE "ok"

DoctorFinish ==
  /\ pc = "doctor.orphan"
  /\ todo = <<>>
  /\ \E rep \in {MergedReport(report, orphanReport)} :
       Finish("doctor", start, fs, rep, DoctorExit(rep), TRUE)
  /\ UNCHANGED <<fs, tracked, ignoreGlobs, xdev, maxPick, arg, res, runsLeft>>

Doctor ==
  \/ DoctorNoTracked
  \/ DoctorBegin
  \/ DoctorManagedStep
  \/ DoctorConfigError
  \/ DoctorOrphanBegin
  \/ DoctorOrphanStep
  \/ DoctorFinish

Next == Doctor

Spec == Init /\ [][Next]_vars

\* One more command than Spec runs: doctor twice in a row.
InitTwice == Start(MaxRuns + 1)

SpecTwice == InitTwice /\ [][Next]_vars

(***************************************************************************)
(* add (track), remove (untrack), unlink                                   *)
(***************************************************************************)

\* The lines the selector can print, before selectWithFzf trims them.
RawInputs == {RelA, RelDA, <<".", ".", "/", "a">>}

OpsLiveChoicesA == {Absent, File("x"), DirEntry, Link(Join(repoPath, RelA))}
OpsLiveChoicesD == {Absent, DirEntry, Link(Join(repoPath, RelD)), Link(Outside)}
OpsLiveChoicesDA == {Absent, File("x"), Link(Join(repoPath, RelDA))}

OpsLayouts ==
  {Layout(la, ld, lda, ra, rd, rda) :
     la \in OpsLiveChoicesA, ld \in OpsLiveChoicesD, lda \in OpsLiveChoicesDA,
     ra \in RepoChoicesA, rd \in RepoChoicesD, rda \in RepoChoicesDA}

\* The state before the first of n add, remove and unlink commands.
StartOps(n) ==
  /\ fs \in {f \in OpsLayouts : WellFormed(f)}
  /\ tracked \in {{}, {RelA}}
  /\ ignoreGlobs = defaultIgnoreGlobs
  /\ xdev \in BOOLEAN
  /\ maxPick = MaxSelected
  /\ arg = <<>>
  /\ res = <<>>
  /\ hist = <<>>
  /\ runsLeft = n
  /\ Idle

TrackFaults ==
  {{}, {"mkdirRepo"}, {"rename"}, {"open"}, {"copy"}, {"remove"}, {"mkdirLive"}, {"symlink"},
   {"symlink", "rollback.rename"}, {"symlink", "rollback.copy"}}
UntrackFaults == {{}, {"lstat"}, {"mkdir"}, {"remove"}, {"open"}, {"copy"}, {"removeRepo"}}
UnlinkFaults == {{}, {"remove"}, {"open"}, {"copy"}}

\* What the picker process does: its exit status and the lines it prints
\* (1: nothing matched or selected, 130: interrupted, 2: an error).
PickerRuns ==
  {[exit |-> 0, lines |-> T] : T \in {U \in SUBSET RawInputs : Cardinality(U) <= maxPick}}
    \cup {[exit |-> e, lines |-> {}] : e \in {1, 130, 2}}

\* An interrupted picker taken for a failed one.
selectWithFzfInterruptFails(run) ==
  IF run.exit # 0 THEN [err |-> "fzf failed", selected |-> <<>>]
  ELSE [err |-> "", selected |-> SortStrings({TrimSpace(l) : l \in run.lines} \ {<<>>})]

\* selectWithFzf on a non-empty list of items, from the end of the picker on.
selectWithFzf(run) ==
  IF run.exit # 0
    THEN IF run.exit \in {1, 130} THEN [err |-> "", selected |-> <<>>]
         ELSE [err |-> "fzf failed", selected |-> <<>>]
  ELSE [err |-> "", selected |-> SortStrings({TrimSpace(l) : l \in run.lines} \ {<<>>})]

\* A command starts its loop over the selected lines.
BeginLoop(cmd, managed, selected) ==
  /\ pc' = cmd
  /\ todo' = selected
  /\ managedSet' = SeqToSet(managed)
  /\ opReport' = EmptyOperationReport
  /\ start' = [fs |-> fs, managed |-> managed, selected |-> selected, picker |-> 0, faulted |-> FALSE]
  /\ stepFault' = FALSE
  /\ UNCHANGED <<fs, tracked, ignoreGlobs, xdev, maxPick, arg, res, report, orphanReport, hist>>

\* A command asks the picker: it returns the picker's failure, returns at
\* once when nothing is selected, and starts its loop otherwise.
Select(cmd, managed) ==
  \E run \in PickerRuns :
    \E sel \in {selectWithFzf(run)} :
      IF sel.selected # <<>> THEN BeginLoop(cmd, managed, sel.selected)
      ELSE /\ Finish(cmd, [fs |-> fs, managed |-> managed, selected |-> <<>>,
                           picker |-> run.exit, faulted |-> FALSE],
                     fs, EmptyOperationReport, IF sel.err # "" THEN "error" ELSE "ok", FALSE)
           /\ UNCHANGED <<fs, tracked, ignoreGlobs, xdev, maxPick, arg, res>>

\* How many commands of one behaviour I/O faults hit.
MaxFaults == 1

FaultedRuns == Cardinality({i \in DOMAIN hist : hist[i].faulted})

\* One iteration r of a command's loop has run; clean is its outcome without
\* an I/O fault.
LoopStep(r, clean) ==
  /\ r # clean => start.faulted \/ FaultedRuns < MaxFaults
  /\ fs' = r.fs
  /\ opReport' = Reported(opReport, r)
  /\ stepFault' = (r # clean)
  /\ start' = [start EXCEPT !.faulted = @ \/ stepFault']
  /\ todo' = Tail(todo)
  /\ UNCHANGED <<tracked, ignoreGlobs, xdev, maxPick, arg, res, pc, report, orphanReport, hist, runsLeft>>

\* commitAndAskPush after a change: `git add -A` stages the work tree, or git
\* fails before that and the index stays as it was.
Commit(cmd) ==
  IF opReport.changed
    THEN \/ tracked' = WorktreeFiles(fs) /\ Finish(cmd, start, fs, opReport, "ok", TRUE)
         \/ tracked' = tracked /\ Finish(cmd, start, fs, opReport, "error", TRUE)
  ELSE tracked' = tracked /\ Finish(cmd, start, fs, opReport, "ok", TRUE)

\* cmdAdd (and the selection of cmdInit), up to the loop of trackSelections.
TrackBegin ==
  /\ pc = "idle"
  /\ runsLeft > 0
  /\ runsLeft' = runsLeft - 1
  /\ Select("track", loadManagedFiles(tracked))

TrackStep ==
  /\ pc = "track"
  /\ todo # <<>>
  /\ \E flt \in TrackFaults :
       \E r \in {trackOne(fs, managedSet, Head(todo), xdev, flt)} :
         /\ LoopStep(r, trackOne(fs, managedSet, Head(todo), xdev, {}))
         /\ managedSet' = IF r.bucket = "succeeded" THEN managedSet \cup {r.path}
                          ELSE managedSet

TrackFinish ==
  /\ pc = "track"
  /\ todo = <<>>
  /\ Commit("track")
  /\ UNCHANGED <<fs, ignoreGlobs, xdev, maxPick, arg, res, runsLeft>>

\* cmdRemove, up to its loop; with no tracked file it returns at once.
UntrackBegin ==
  /\ pc = "idle"
  /\ runsLeft > 0
  /\ runsLeft' = runsLeft - 1
  /\ \E managed \in {loadManagedFiles(tracked)} :
       IF managed = <<>>
         THEN /\ Finish("untrack", [fs |-> fs, managed |-> <<>>, selected |-> <<>>, picker |-> -1, faulted |-> FALSE],
                        fs, EmptyOperationReport, "ok", FALSE)
              /\ UNCHANGED <<fs, tracked, ignoreGlobs, xdev, maxPick, arg, res>>
       ELSE Select("untrack", managed)

UntrackStep ==
  /\ pc = "untrack"
  /\ todo # <<>>
  /\ \E flt \in UntrackFaults :
       LoopStep(removeOne(fs, Head(todo), flt), removeOne(fs, Head(todo), {}))
  /\ UNCHANGED managedSet

UntrackFinish ==
  /\ pc = "untrack"
  /\ todo = <<>>
  /\ Commit("untrack")
  /\ UNCHANGED <<fs, ignoreGlobs, xdev, maxPick, arg, res, runsLeft>>

\* cmdUnlink, up to its loop; with no tracked file it returns at once.
UnlinkBegin ==
  /\ pc = "idle"
  /\ runsLeft > 0
  /\ runsLeft' = runsLeft - 1
  /\ \E managed \in {loadManagedFiles(tracked)} :
       IF managed = <<>>
         THEN /\ Finish("unlink", [fs |-> fs, managed |-> <<>>, selected |-> <<>>, picker |-> -1, faulted |-> FALSE],
                        fs, EmptyOperationReport, "ok", FALSE)
              /\ UNCHANGED <<fs, tracked, ignoreGlobs, xdev, maxPick, arg, res>>
       ELSE Select("unlink", managed)

UnlinkStep ==
  /\ pc = "unlink"
  /\ todo # <<>>
  /\ \E flt \in UnlinkFaults :
       LoopStep(unlinkOne(fs, Head(todo), flt), unlinkOne(fs, Head(todo), {}))
  /\ UNCHANGED managedSet

\* cmdUnlink prints its report and returns; it commits nothing.
UnlinkFinish ==
  /\ pc = "unlink"
  /\ todo = <<>>
  /\ Finish("unlink", start, fs, opReport, "ok", TRUE)
  /\ UNCHANGED <<fs, tracked, ignoreGlobs, xdev, maxPick, arg, res, runsLeft>>

Ops ==
  \/ TrackBegin
  \/ TrackStep
  \/ TrackFinish
  \/ UntrackBegin
  \/ UntrackStep
  \/ UntrackFinish
  \/ UnlinkBegin
  \/ UnlinkStep
  \/ UnlinkFinish

\* A command and the one after it: track, untrack and unlink from every layout.
InitOps == StartOps(MaxRuns + 1)

SpecOps == InitOps /\ [][Ops]_vars

\* One command of any kind, over up to two selected lines, from every layout
\* and with any of the two paths tracked.
InitBatch ==
  /\ fs \in {f \in Layouts : WellFormed(f)}
  /\ tracked \in SUBSET {RelA, RelDA}
  /\ ignoreGlobs = defaultIgnoreGlobs
  /\ xdev \in BOOLEAN
  /\ maxPick = MaxSelected + 1
  /\ arg = <<>>
  /\ res = <<>>
  /\ hist = <<>>
  /\ runsLeft = MaxRuns
  /\ Idle

Batch == Doctor \/ Ops

SpecBatch == InitBatch /\ [][Batch]_vars

\* One command of any kind, or the scan for candidates, under ignore
\* patterns that match the directory d with all below it, or the file a.
InitIgnore ==
  /\ fs \in {f \in Layouts : WellFormed(f)}
  /\ tracked \in SUBSET {RelA, RelDA}
  /\ ignoreGlobs \in {{<<"d", "/", "*", "*">>}, {<<"a">>}}
  /\ xdev = FALSE
  /\ maxPick = MaxSelected
  /\ arg = <<>>
  /\ res = <<>>
  /\ hist = <<>>
  /\ runsLeft = MaxRuns
  /\ Idle

\* scanXDGRegularFiles, as cmdAdd and cmdInit call it for their candidates.
Scan ==
  /\ pc = "idle"
  /\ hist = <<>>
  /\ pc' = "scanXDGRegularFiles"
  /\ res' = <<scanXDGRegularFiles(fs, xdg, compileGlobMatchers(ignoreGlobs))>>
  /\ UNCHANGED <<fs, tracked, ignoreGlobs, xdev, maxPick, arg, todo, managedSet, report,
                 orphanReport, opReport, start, hist, stepFault, runsLeft>>

SpecIgnore == InitIgnore /\ [][Batch \/ Scan]_vars

(***************************************************************************)
(* The path classifier called on its own                                   *)
(***************************************************************************)

\* How many components the paths given to the classifier have at most.
MaxComps == 3

\* How many times in a row the classifier is applied, to its own result from
\* the second time on.
MaxCalls == 2

EtcPasswd == <<"/", "e", "t", "c", "/", "p", "a", "s", "s", "w", "d">>
UpUpEtcPasswd == <<".", ".", "/", ".", ".", "/", "e", "t", "c", "/", "p", "a", "s", "s", "w", "d">>
GitConfig == <<".", "g", "i", "t", "/", "c", "o", "n", "f", "i", "g">>
NvimInitLua == <<"n", "v", "i", "m", "/", "i", "n", "i", "t", ".", "l", "u", "a">>
DotNvimInitLua == <<".", "/", "n", "v", "i", "m", "/", "i", "n", "i", "t", ".", "l", "u", "a">>

\* The components the paths are built from: none (a doubled, leading or
\* trailing separator), `.`, `..`, a plain name, `.git`, and names that begin
\* with two dots or with a space or end with a space.
PathComps == {<<>>, Dot, DotDot, <<"a">>, GitDir, <<".", ".", "a">>, <<" ", "a">>, <<"a", " ">>}

\* The strings given to the classifier: the components joined by separators,
\* bare or with whitespace around, and some paths spelled out.
PathInputs ==
  LET joined == {JoinSlash(cs) : cs \in UNION {[1..n -> PathComps] : n \in 1..MaxComps}}
  IN joined \cup {<<" ">> \o p \o <<" ">> : p \in joined}
       \cup {EtcPasswd, UpUpEtcPasswd, GitDir, GitConfig, NvimInitLua, DotNvimInitLua}

\* The state before a function is called on its own: no command runs.
Standalone(name) ==
  /\ fs = Layout(Absent, Absent, Absent, Absent, Absent, Absent)
  /\ tracked = {}
  /\ ignoreGlobs = defaultIgnoreGlobs
  /\ xdev = FALSE
  /\ maxPick = MaxSelected
  /\ res = <<>>
  /\ pc = name
  /\ todo = <<>>
  /\ managedSet = {}
  /\ report = EmptyDoctorReport
  /\ orphanReport = EmptyDoctorReport
  /\ opReport = EmptyOperationReport
  /\ start = [fs |-> fs, managed |-> <<>>, selected |-> <<>>, picker |-> -1, faulted |-> FALSE]
  /\ hist = <<>>
  /\ stepFault = FALSE
  /\ runsLeft = 0

\* The function returns: its result is kept.
Return(r) ==
  /\ res' = Append(res, r)
  /\ UNCHANGED <<fs, tracked, ignoreGlobs, xdev, maxPick, arg, pc, todo, managedSet, report,
                 orphanReport, opReport, start, hist, stepFault, runsLeft>>

InitClassify == arg \in PathInputs /\ Standalone("normalizeManagedPath")

\* normalizeManagedPath(arg), then normalizeManagedPath of what it accepted.
Classify ==
  /\ pc = "normalizeManagedPath"
  /\ Len(res) < MaxCalls
  /\ res # <<>> => res[Len(res)].ok
  /\ Return(normalizeManagedPath(IF res = <<>> THEN arg ELSE res[Len(res)].rel))

SpecClassify == InitClassify /\ [][Classify]_vars

(***************************************************************************)
(* The glob ignore matcher called on its own                               *)
(***************************************************************************)

\* How many characters the enumerated patterns have at most.
MaxPatternLen == 3

\* How many characters the enumerated relative paths have at most.
MaxRelLen == 3

NodeModulesBelow == NodeModules \o <<"/", "*", "*">>
BelowNodeModules == <<"*", "*", "/">> \o NodeModules
PkgIndexJs == NodeModules \o <<"/", "p", "k", "g", "/", "i", "n", "d", "e", "x", ".", "j", "s">>
ABNodeModules == <<"a", "/", "b", "/">> \o NodeModules

\* The patterns given to compileGlobMatchers.
GlobPatterns ==
  UNION {[1..n -> {"a", "/", "*", "?", "."}] : n \in 1..MaxPatternLen}
    \cup {NodeModulesBelow, BelowNodeModules}

\* The relative paths given to shouldIgnorePath: what filepath.Rel returns
\* for an entry below the walked root.
GlobRels ==
  {r \in UNION {[1..n -> {"a", "b", "/", "?", "."}] : n \in 1..MaxRelLen} :
     /\ pathClean(r) = r
     /\ ~HasPrefix(r, <<"/">>)
     /\ r # Dot
     /\ DotDot \notin SeqToSet(Components(r))}
    \cup {NodeModules, PkgIndexJs, ABNodeModules}

InitGlob ==
  /\ arg \in [pattern : GlobPatterns, rel : GlobRels, isDir : BOOLEAN]
  /\ Standalone("shouldIgnorePath")

\* compileGlobMatchers of the one pattern, then shouldIgnorePath.
Match ==
  /\ pc = "shouldIgnorePath"
  /\ res = <<>>
  /\ Return(IF compileGlobMatchersFails({arg.pattern})
              THEN [err |-> TRUE, ignored |-> FALSE]
            ELSE [err |-> FALSE,
                  ignored |-> shouldIgnorePath(arg.rel, arg.isDir,
                                               compileGlobMatchers({arg.pattern}))])

SpecGlob == InitGlob /\ [][Match]_vars

(***************************************************************************)
(* Resolution of the repository location                                   *)
(***************************************************************************)

\* How many characters a value of CFGS_REPO or of repo_path has at most.
MaxValueLen == 2

\* The values of the environment variable CFGS_REPO and of the key repo_path:
\* the empty string is what os.Getenv returns for an unset variable and what
\* json.Unmarshal leaves for a missing key.
RepoValues == UNION {[1..n -> {" ", "r", "q", "~"}] : n \in 0..MaxValueLen}

\* The file config.json: absent, unreadable, not valid JSON, or an object.
ConfigFiles ==
  {[state |-> st, repo_path |-> <<>>] : st \in {"absent", "unreadable", "malformed"}}
    \cup {[state |-> "json", repo_path |-> v] : v \in RepoValues}

Home == <<"h">>

\* The directories that are the root of a git work tree with a remote.
GitRepos == {<<"r">>, <<"q">>}

expandPath(input) ==
  Bind(TrimSpace(input), LAMBDA t :
    IF t = <<"~">> THEN Home
    ELSE IF HasPrefix(t, <<"~", "/">>) THEN Home \o <<"/">> \o SubSeq(t, 3, Len(t))
    ELSE t)

validateAndNormalizeRepo(p) ==
  IF expandPath(p) \in GitRepos THEN [err |-> "", root |-> expandPath(p)]
  ELSE [err |-> "repository path not found", root |-> <<>>]

loadCfgsConfig(file) ==
  IF file.state = "absent" THEN [err |-> "", ok |-> FALSE, RepoPath |-> <<>>]
  ELSE IF file.state # "json" THEN [err |-> file.state, ok |-> FALSE, RepoPath |-> <<>>]
  ELSE IF TrimSpace(file.repo_path) = <<>> THEN [err |-> "", ok |-> FALSE, RepoPath |-> <<>>]
  ELSE [err |-> "", ok |-> TRUE, RepoPath |-> TrimSpace(file.repo_path)]

\* The configuration consulted before the environment.
resolveRepoPathConfigFirst(env, file) ==
  Bind(loadCfgsConfig(file), LAMBDA cfg :
    IF cfg.ok /\ validateAndNormalizeRepo(cfg.RepoPath).err = ""
      THEN [err |-> "", path |-> validateAndNormalizeRepo(cfg.RepoPath).root]
    ELSE IF validateAndNormalizeRepo(expandPath(TrimSpace(env))).err = ""
      THEN [err |-> "", path |-> validateAndNormalizeRepo(expandPath(TrimSpace(env))).root]
    ELSE [err |-> "could not resolve repository", path |-> <<>>])

resolveRepoPath(env, file) ==
  IF TrimSpace(env) # <<>>
    THEN Bind(validateAndNormalizeRepo(expandPath(TrimSpace(env))), LAMBDA v :
           IF v.err # "" THEN [err |-> "CFGS_REPO", path |-> <<>>]
           ELSE [err |-> "", path |-> v.root])
  ELSE Bind(loadCfgsConfig(file), LAMBDA cfg :
         IF cfg.err # "" THEN [err |-> "read cfgs config", path |-> <<>>]
         ELSE IF cfg.ok
           THEN Bind(validateAndNormalizeRepo(cfg.RepoPath), LAMBDA v :
                  IF v.err # "" THEN [err |-> "cfgs config repo_path", path |-> <<>>]
                  ELSE [err |-> "", path |-> v.root])
         ELSE [err |-> "could not resolve repository", path |-> <<>>])

InitResolve ==
  /\ arg \in [env : RepoValues, config : ConfigFiles]
  /\ Standalone("resolveRepoPath")

ResolveRepo ==
  /\ pc = "resolveRepoPath"
  /\ res = <<>>
  /\ Return(resolveRepoPath(arg.env, arg.config))

SpecResolve == InitResolve /\ [][ResolveRepo]_vars

(***************************************************************************)
(* The pruning of repository directories after untrack                     *)
(***************************************************************************)

\* Repositories three directories deep: the files a, d/a and d/d/a, each
\* present with either content or absent, in the directories they need; the
\* directories d and d/d can also be there with nothing in them.
PruneTrees ==
  {f \in [{<<>>, Outside, repoPath, repoPath \o <<A>>, repoPath \o <<D>>, repoPath \o <<D, A>>,
           repoPath \o <<D, D>>, repoPath \o <<D, D, A>>}
            -> {Absent, DirEntry} \cup {File(d) : d \in Data}] :
     /\ WellFormed(f)
     /\ \A n \in DOMAIN f :
          IF n \in {<<>>, Outside, repoPath} THEN f[n] = DirEntry
          ELSE IF n[Len(n)] = A THEN f[n].kind # "dir"
          ELSE f[n] \in {Absent, DirEntry}}

\* The state before cmdRemove deletes the repository file arg.
InitPrune ==
  /\ fs \in PruneTrees
  /\ arg \in {n \in DOMAIN fs : fs[n].kind = "file"}
  /\ tracked = {}
  /\ ignoreGlobs = defaultIgnoreGlobs
  /\ xdev = FALSE
  /\ maxPick = MaxSelected
  /\ res = <<>>
  /\ pc = "removeEmptyDirsUpward"
  /\ todo = <<>>
  /\ managedSet = {}
  /\ report = EmptyDoctorReport
  /\ orphanReport = EmptyDoctorReport
  /\ opReport = EmptyOperationReport
  /\ start = [fs |-> fs, managed |-> <<>>, selected |-> <<>>, picker |-> -1, faulted |-> FALSE]
  /\ hist = <<>>
  /\ stepFault = FALSE
  /\ runsLeft = 0

\* The end of an iteration of cmdRemove: os.Remove(repoFile), then
\* removeEmptyDirsUpward(repoPath, filepath.Dir(repoFile)).
Prune ==
  /\ pc = "removeEmptyDirsUpward"
  /\ res = <<>>
  /\ Return(removeEmptyDirsUpward(osRemove(fs, arg).fs, CleanComps(repoPath, <<>>, TRUE),
                                  CleanComps(Dir(arg), <<>>, TRUE)))

SpecPrune == InitPrune /\ [][Prune]_vars

(***************************************************************************)
(* Properties of doctor                                                    *)
(***************************************************************************)

LiveFile(rel) == Join(xdg, rel)
RepoFile(rel) == Join(repoPath, rel)

DoctorRuns == {i \in DOMAIN hist : hist[i].cmd = "doctor"}

\* The live entry of rel is a regular file, the repository file of rel is a
\* regular file, and their bytes differ.
DivergentLive(f, rel) ==
  \E live \in {osLstat(f, LiveFile(rel))} : \E repo \in {osStat(f, RepoFile(rel))} :
    /\ live.err = "" /\ live.kind = "file"
    /\ repo.err = "" /\ repo.kind = "file"
    /\ live.data # repo.data

\* C1: a managed path whose live entry is a regular file with content different
\* from the existing repository file is, after a doctor run, still that regular
\* file with the same bytes, the repository file has kept its bytes, and the
\* path is in requireManualResolve.
C1_DivergentLiveFileKept ==
  \A i \in DoctorRuns : \A rel \in SeqToSet(hist[i].managed) :
    DivergentLive(hist[i].before, rel) =>
      /\ osLstat(hist[i].after, LiveFile(rel)) = osLstat(hist[i].before, LiveFile(rel))
      /\ osStat(hist[i].after, RepoFile(rel)) = osStat(hist[i].before, RepoFile(rel))
      /\ rel \in SeqToSet(hist[i].report.requireManualResolve)

C1_Witness ==
  \E i \in DoctorRuns : \E rel \in SeqToSet(hist[i].managed) :
    /\ hist[i].complete
    /\ DivergentLive(hist[i].before, rel)
    /\ rel \in SeqToSet(hist[i].report.requireManualResolve)

\* The live entry of rel is a symlink that resolves exactly to the repository
\* file of rel.
LinkedToRepo(f, rel) ==
  \E live \in {osLstat(f, LiveFile(rel))} : \E to \in {Resolve(f, LiveFile(rel), TRUE)} :
    /\ live.err = "" /\ live.kind = "link"
    /\ to.err = "" /\ to.path = RepoFile(rel)
    /\ Lookup(f, to.path).kind # "absent"

\* C2: after a doctor run has finished, every managed path is in
\* requireManualResolve or its live entry is a symlink that resolves exactly to
\* its repository file.
C2_ManagedLinkedOrManual ==
  \A i \in DoctorRuns : hist[i].complete => \A rel \in SeqToSet(hist[i].managed) :
    \/ rel \in SeqToSet(hist[i].report.requireManualResolve)
    \/ LinkedToRepo(hist[i].after, rel)

\* C4: a doctor run that has made both passes returns success if and only if
\* requireManualResolve is empty, and every path either pass classified as
\* manual-resolve is in the final report.
C4_FailsIffManualResolve ==
  \A i \in DoctorRuns : hist[i].complete =>
    /\ hist[i].exit = "ok" <=> hist[i].report.requireManualResolve = <<>>
    /\ SeqToSet(hist[i].managedPass.requireManualResolve) \subseteq
         SeqToSet(hist[i].report.requireManualResolve)
    /\ SeqToSet(hist[i].orphanPass.requireManualResolve) \subseteq
         SeqToSet(hist[i].report.requireManualResolve)

C4_Witness ==
  \E i \in DoctorRuns :
    /\ hist[i].complete
    /\ hist[i].exit = "error"
    /\ hist[i].managedPass.requireManualResolve = <<>>
    /\ hist[i].orphanPass.requireManualResolve # <<>>

\* The live entries below the live directory.
LiveNodes == {n \in Nodes : Len(n) > Len(xdg) /\ SubSeq(n, 1, Len(xdg)) = xdg}

\* The entry at the live node n is a symlink whose target, lexically cleaned,
\* lies inside the repository.
LinkIntoRepo(f, n) ==
  /\ f[n].kind = "link"
  /\ \E t \in {CleanComps(f[n].target, <<>>, TRUE)} :
       /\ Len(t) >= Len(repoPath)
       /\ SubSeq(t, 1, Len(repoPath)) = repoPath

\* The live node n holds an orphan: a symlink into the repository, at a path
\* the ignore patterns do not match and the managed set does not hold.
Orphan(f, n, managed, globs) ==
  /\ LinkIntoRepo(f, n)
  /\ ~shouldIgnorePath(RelOf(xdg, n), FALSE, compileGlobMatchers(globs))
  /\ RelOf(xdg, n) \notin managed

\* C5: every doctor run makes the orphan-symlink pass, also with an empty
\* managed set: every orphan symlink is, by the end of the run, removed,
\* materialized as a copy, or in requireManualResolve. (A run that fails to
\* load the ignore configuration is not counted.)
C5_OrphanPassAlways ==
  \A i \in DoctorRuns : (hist[i].complete \/ hist[i].exit = "ok") =>
    \A n \in LiveNodes :
      Orphan(hist[i].before, n, SeqToSet(hist[i].managed), hist[i].ignore) =>
        \/ hist[i].after[n].kind # "link"
        \/ RelOf(xdg, n) \in SeqToSet(hist[i].report.requireManualResolve)

\* The walk is about to hand an orphan symlink to the callback.
OrphanAtHead ==
  /\ pc = "doctor.orphan"
  /\ todo # <<>>
  /\ Orphan(fs, Head(todo), managedSet, ignoreGlobs)

ManualAdded(rel) ==
  orphanReport' = [orphanReport EXCEPT !.requireManualResolve = Append(@, rel)]

UnlinkedAdded(rel, note) ==
  orphanReport' =
    [orphanReport EXCEPT !.unlinkedOrphanSymlink = Append(@, [path |-> rel, note |-> note])]

\* C6: the orphan-symlink pass, on an orphan symlink: when its target no
\* longer exists the symlink is removed and reported in unlinkedOrphanSymlink
\* with " (removed dangling symlink)"; when its target is a regular file the
\* symlink is replaced by a regular file with the target's bytes and reported
\* in unlinkedOrphanSymlink; when its target exists but is not a regular file
\* (or cannot be examined), or the removal or the copy fails, the path is
\* reported in requireManualResolve.
C6_OrphanHandled ==
  [][OrphanAtHead =>
       \E p \in {Head(todo)} :
       \E tgt \in {osStat(fs, CleanComps(fs[Head(todo)].target, <<>>, TRUE))} :
         IF stepFault' THEN ManualAdded(RelOf(xdg, p))
         ELSE IF tgt.err = "ENOENT"
           THEN /\ fs' = [fs EXCEPT ![p] = Absent]
                /\ UnlinkedAdded(RelOf(xdg, p), " (removed dangling symlink)")
         ELSE IF tgt.err = "" /\ tgt.kind = "file"
           THEN /\ fs' = [fs EXCEPT ![p] = File(tgt.data)]
                /\ UnlinkedAdded(RelOf(xdg, p), "")
         ELSE /\ fs' = fs
              /\ ManualAdded(RelOf(xdg, p))]_vars

C6_Witness ==
  /\ pc = "doctor.orphan"
  /\ todo = <<>>
  /\ \E it \in SeqToSet(orphanReport.unlinkedOrphanSymlink) :
       it.note = DanglingNote /\ fs[Join(xdg, it.path)].kind = "absent"
  /\ \E it \in SeqToSet(orphanReport.unlinkedOrphanSymlink) :
       it.note = "" /\ fs[Join(xdg, it.path)] = File("x")

\* The relative paths a report of the orphan pass names.
Mentions(rep) ==
  {it.path : it \in SeqToSet(rep.unlinkedOrphanSymlink)} \cup SeqToSet(rep.requireManualResolve)

\* The live symlinks the orphan pass has to leave alone: the target lies
\* outside the repository, or the relative path is managed.
Exempt(f, n) ==
  /\ f[n].kind = "link"
  /\ ~LinkIntoRepo(f, n) \/ RelOf(xdg, n) \in managedSet

\* C7: no step of the orphan-symlink pass changes or reports a live symlink
\* whose lexically cleaned target lies outside the repository root or whose
\* relative path is in the managed set.
C7_OutsideAndManagedUntouched ==
  [][pc = "doctor.orphan" =>
       \A n \in LiveNodes :
         Exempt(fs, n) =>
           /\ fs'[n] = fs[n]
           /\ RelOf(xdg, n) \in Mentions(orphanReport') => RelOf(xdg, n) \in Mentions(orphanReport)]_vars

C7_Witness ==
  /\ pc = "doctor.orphan"
  /\ todo = <<>>
  /\ \E n \in LiveNodes :
       /\ start.fs[n].kind = "link"
       /\ ~LinkIntoRepo(start.fs, n)
       /\ RelOf(xdg, n) \notin managedSet
       /\ fs[n] = start.fs[n]
  /\ \E n \in LiveNodes : fs[n].kind = "link" /\ RelOf(xdg, n) \in managedSet


\* C3: doctor is idempotent. Of two doctor runs in a row, neither hit by an
\* I/O fault, the second replaces nothing, unlinks nothing, has the
\* requireManualResolve set of the first, has in didNotTouch every path the
\* first put in replacedWithSymlink, and changes nothing.
C3_DoctorIdempotent ==
  \A i \in DoctorRuns :
    (i + 1 \in DoctorRuns /\ ~hist[i].faulted /\ ~hist[i + 1].faulted) =>
      /\ hist[i + 1].report.replacedWithSymlink = <<>>
      /\ hist[i + 1].report.unlinkedOrphanSymlink = <<>>
      /\ SeqToSet(hist[i + 1].report.requireManualResolve) =
           SeqToSet(hist[i].report.requireManualResolve)
      /\ SeqToSet(hist[i].report.replacedWithSymlink) \subseteq
           SeqToSet(hist[i + 1].report.didNotTouch)
      /\ hist[i + 1].after = hist[i + 1].before

(***************************************************************************)
(* Properties of track, untrack and unlink                                 *)
(***************************************************************************)

\* The paths a finished command reports as succeeded.
Succeeded(h) == {it.path : it \in SeqToSet(h.report.succeeded)}

\* The command i of the history is a track and the next one is cmd.
TrackThen(i, cmd) ==
  /\ i + 1 \in DOMAIN hist
  /\ hist[i].cmd = "track"
  /\ hist[i + 1].cmd = cmd

\* The directories above the repository file of rel, below the repository root.
RepoDirsOf(rel) ==
  {SubSeq(RepoFile(rel), 1, k) : k \in (Len(repoPath) + 1)..(Len(RepoFile(rel)) - 1)}

C9_TrackUnlinkRoundTrip ==
  \A i \in DOMAIN hist : TrackThen(i, "unlink") =>
    \A rel \in Succeeded(hist[i]) \cap Succeeded(hist[i + 1]) :
      \E was \in {osLstat(hist[i].before, LiveFile(rel))} :
      \E repo \in {osLstat(hist[i + 1].after, RepoFile(rel))} :
      \E now \in {osLstat(hist[i + 1].after, LiveFile(rel))} :
        /\ repo = osLstat(hist[i].after, RepoFile(rel))
        /\ repo.err = "" /\ repo.kind = "file"
        /\ now.err = "" /\ now.kind = "file"
        /\ now.data = repo.data /\ now.data = was.data

C9_Witness ==
  \E i \in DOMAIN hist :
    /\ TrackThen(i, "unlink")
    /\ Succeeded(hist[i]) \cap Succeeded(hist[i + 1]) # {}
    /\ xdev

\* The bucket trackSelections rejects the selection raw into, "" when it
\* accepts it: an invalid path fails, an already managed one is skipped, a
\* missing live source fails, a live source that is not a regular file is
\* skipped, an existing repository file fails.
TrackRejection(f, managed, raw) ==
  Bind(normalizeManagedPath(raw), LAMBDA norm :
    IF ~norm.ok THEN "failed"
    ELSE IF norm.rel \in managed THEN "skipped"
    ELSE IF osLstat(f, LiveFile(norm.rel)).err # "" THEN "failed"
    ELSE IF osLstat(f, LiveFile(norm.rel)).kind # "file" THEN "skipped"
    ELSE IF osStat(f, RepoFile(norm.rel)).err = "" THEN "failed"
    ELSE "")

\* C10: when track rejects a selection, the step changes nothing in the live
\* directory or the repository, adds nothing to the managed set, and reports
\* the selection in the bucket of its rejection: skipped for an already
\* managed path and for a source that is not a regular file, failed otherwise.
C10_TrackRejectsBeforeMutation ==
  [][(pc = "track" /\ todo # <<>> /\ TrackRejection(fs, managedSet, Head(todo)) # "") =>
       \E bucket \in {TrackRejection(fs, managedSet, Head(todo))} :
         /\ fs' = fs
         /\ managedSet' = managedSet
         /\ Len(opReport'[bucket]) = Len(opReport[bucket]) + 1
         /\ \A other \in {"succeeded", "skipped", "failed"} \ {bucket} :
              opReport'[other] = opReport[other]
         /\ opReport'.changed = opReport.changed]_vars

C10_Witness ==
  /\ pc = "track"
  /\ todo = <<>>
  /\ fs = start.fs
  /\ \E it \in SeqToSet(opReport.failed) :
       /\ it.reason = "repo file already exists"
       /\ osLstat(fs, LiveFile(it.path)).kind = "file"
       /\ fs[RepoFile(it.path)].kind = "file"

(***************************************************************************)
(* Properties of the error paths of track                                  *)
(***************************************************************************)

\* The item the loop iteration of this step appends to the bucket b.
Added(b) == opReport'[b][Len(opReport'[b])]

\* This step is one iteration of the loop of cmd that appends to the bucket b.
Stepped(cmd, b) ==
  /\ pc = cmd
  /\ todo # <<>>
  /\ todo' = Tail(todo)
  /\ Len(opReport'[b]) = Len(opReport[b]) + 1

\* The reasons of the two failures of track that come after the move.
PostMoveReasons == {"restore after mkdir failure", "create symlink"}

PostMoveFailure == Stepped("track", "failed") /\ Added("failed").reason \in PostMoveReasons

\* Across this step the live entry of rel is again the regular file it was,
\* with its bytes, and the repository has no file for rel.
MoveReversed(rel) ==
  \E was \in {osLstat(fs, LiveFile(rel))} :
  \E now \in {osLstat(fs', LiveFile(rel))} :
    /\ now.err = "" /\ now.kind = "file"
    /\ now.data = was.data /\ now.path = was.path
    /\ osLstat(fs', RepoFile(rel)).err # ""

\* This step is the loop iteration of track under faults that hit the step
\* after the move and spare the compensating move.
RollbackSpared ==
  \E flt \in TrackFaults :
    /\ flt \cap {"mkdirLive", "symlink"} # {}
    /\ Rollback(flt) = {}
    /\ fs' = trackOne(fs, managedSet, Head(todo), xdev, flt).fs

\* C11 as stated: when the step after the move fails, the move is reversed
\* (the live file is back with its bytes, the repository has no file at the
\* path), the path is reported as failed and not as succeeded, and it is not
\* added to the managed set.
C11_MoveAlwaysReversed ==
  [][PostMoveFailure =>
       /\ MoveReversed(Added("failed").path)
       /\ opReport'.succeeded = opReport.succeeded
       /\ managedSet' = managedSet]_vars

\* C11 amended: when the step after the move fails, the path is reported as
\* failed and not as succeeded and is not added to the managed set; and when
\* the compensating move meets no I/O error of its own, the live file is back
\* with its bytes and the repository has no file at the path.
C11_MoveReversedWhenRollbackSucceeds ==
  [][PostMoveFailure =>
       /\ opReport'.succeeded = opReport.succeeded
       /\ opReport'.skipped = opReport.skipped
       /\ managedSet' = managedSet
       /\ RollbackSpared => MoveReversed(Added("failed").path)]_vars

C11_Witness ==
  /\ pc = "track"
  /\ xdev
  /\ \E it \in SeqToSet(opReport.failed) :
       /\ it.reason = "create symlink"
       /\ osLstat(fs, LiveFile(it.path)).kind = "file"
       /\ osLstat(fs, LiveFile(it.path)) = osLstat(start.fs, LiveFile(it.path))
       /\ osLstat(fs, RepoFile(it.path)).err # ""
       /\ fs[Dir(RepoFile(it.path))].kind = "dir"

\* The names of the faults that hit the compensating move of track.
RollbackFaultNames == {"rollback.rename", "rollback.open", "rollback.copy", "rollback.remove"}

\* C12: when the compensating move of track fails, the report entry of the
\* path carries that failure besides the original one: it is not the entry
\* the same original failure leaves when the compensating move succeeds.
C12_RollbackFailureSurfaced ==
  [][PostMoveFailure =>
       \A flt \in TrackFaults :
         \E r \in {trackOne(fs, managedSet, Head(todo), xdev, flt)} :
         \E spared \in {trackOne(fs, managedSet, Head(todo), xdev, flt \ RollbackFaultNames)} :
           (fs' = r.fs /\ r.fs # spared.fs) =>
             Added("failed") # [path |-> spared.path, reason |-> spared.reason]]_vars

(***************************************************************************)
(* Properties of untrack and unlink                                        *)
(***************************************************************************)

\* The live entry of rel is a symlink that does not resolve to the repository
\* file.
LiveLinkElsewhere(f, rel) ==
  /\ osLstat(f, LiveFile(rel)).kind = "link"
  /\ ~LinkedToRepo(f, rel)

\* Untrack of rel succeeded in this step: the live entry is a regular file,
\* a copy of the repository file when there was no live entry or a symlink to
\* the repository file, the file it was when it was a regular file; and the
\* repository file is gone.
UntrackedSafely(rel) ==
  \E live \in {osLstat(fs, LiveFile(rel))} :
  \E repo \in {osStat(fs, RepoFile(rel))} :
  \E now \in {osLstat(fs', LiveFile(rel))} :
    /\ now.err = "" /\ now.kind = "file"
    /\ (live.err = "ENOENT" \/ LinkedToRepo(fs, rel)) => now.data = repo.data
    /\ (live.err = "" /\ live.kind = "file") => now = live
    /\ osLstat(fs', RepoFile(rel)).err # ""

\* Untrack of rel has to fail: the repository file is missing, or the live
\* entry is a symlink to somewhere else or neither a file nor a symlink.
UntrackImpossible(f, rel) ==
  \/ osStat(f, RepoFile(rel)).err # ""
  \/ LiveLinkElsewhere(f, rel)
  \/ osLstat(f, LiveFile(rel)).kind = "dir"

\* C13: a successful untrack of P leaves a regular live file at P (a copy of
\* the repository content when live was absent or a symlink to the repository
\* file, the file as it was when it was a regular file) and no repository
\* file; when the repository file is missing, or live is a symlink pointing
\* elsewhere or a non-regular entry, untrack of P fails and the repository
\* file is not deleted.
C13_UntrackKeepsLiveContent ==
  [][/\ (Stepped("untrack", "succeeded") /\ Added("succeeded").path \in managedSet) =>
          UntrackedSafely(Added("succeeded").path)
     /\ \A norm \in {normalizeManagedPath(IF todo = <<>> THEN <<>> ELSE Head(todo))} :
          (/\ pc = "untrack" /\ todo # <<>>
           /\ norm.ok /\ norm.rel \in managedSet
           /\ UntrackImpossible(fs, norm.rel)) =>
            /\ Stepped("untrack", "failed")
            /\ Added("failed").path = norm.rel
            /\ osLstat(fs', RepoFile(norm.rel)) = osLstat(fs, RepoFile(norm.rel))]_vars

\* The entries below the repository root.
RepoTree(f) ==
  [n \in {m \in Nodes : Len(m) >= Len(repoPath) /\ SubSeq(m, 1, Len(repoPath)) = repoPath}
     |-> f[n]]

\* C14: unlink of P acts only when the live entry at P is a symlink that
\* resolves to the repository file of P: otherwise P is skipped and nothing
\* changes; when it succeeds the live entry at P is a regular file with the
\* bytes of the repository file; and no step of unlink changes the
\* repository, the managed set or the tracked files.
C14_UnlinkOnlyLiveSide ==
  [][pc = "unlink" =>
       /\ RepoTree(fs') = RepoTree(fs)
       /\ managedSet' \in {managedSet, {}}
       /\ tracked' = tracked
       /\ \A norm \in {normalizeManagedPath(IF todo = <<>> THEN <<>> ELSE Head(todo))} :
            (todo # <<>> /\ norm.ok) =>
              /\ ~LinkedToRepo(fs, norm.rel) =>
                   /\ Stepped("unlink", "skipped")
                   /\ Added("skipped").path = norm.rel
                   /\ fs' = fs
              /\ Stepped("unlink", "succeeded") =>
                   \E now \in {osLstat(fs', LiveFile(norm.rel))} :
                     /\ Added("succeeded").path = norm.rel
                     /\ LinkedToRepo(fs, norm.rel)
                     /\ now.err = "" /\ now.kind = "file"
                     /\ now.data = osStat(fs, RepoFile(norm.rel)).data]_vars

C14_Witness ==
  /\ pc = "unlink"
  /\ \E it \in SeqToSet(opReport.succeeded) :
       /\ LinkedToRepo(start.fs, it.path)
       /\ osLstat(fs, LiveFile(it.path)).kind = "file"
       /\ osLstat(fs, LiveFile(it.path)).data = osStat(fs, RepoFile(it.path)).data
  /\ \E it \in SeqToSet(opReport.skipped) : LiveLinkElsewhere(start.fs, it.path)

(***************************************************************************)
(* Properties of the path classifier                                       *)
(***************************************************************************)

\* The trimmed, slash-normalized, lexically cleaned form of a string.
Cleaned(raw) == pathClean(ToSlash(TrimSpace(raw)))

\* The absolute path p lies below the directory root.
StrictlyBelow(root, p) == Len(p) > Len(root) /\ SubSeq(p, 1, Len(root)) = root

\* C15: the classifier rejects every input whose cleaned form is empty or
\* `.`, is absolute, has a `..` component (the path `..` included), or is
\* `.git` or below `.git/`; and a path it accepts, joined to the live root
\* or to the repository root, is a location below that root.
C15_RejectsEscapingPaths ==
  (pc = "normalizeManagedPath" /\ res # <<>>) =>
    \E c \in {Cleaned(arg)} :
      /\ ( \/ c \in {<<>>, Dot}
           \/ HasPrefix(c, <<"/">>)
           \/ DotDot \in SeqToSet(Components(c))
           \/ c = GitDir
           \/ HasPrefix(c, GitDir \o <<"/">>) ) => ~res[1].ok
      /\ res[1].ok => /\ StrictlyBelow(xdg, Join(xdg, res[1].rel))
                      /\ StrictlyBelow(repoPath, Join(repoPath, res[1].rel))

\* C16 as stated: the classifier rejects `/etc/passwd`, `../../etc/passwd`,
\* `.git` and `.git/config`, accepts `nvim/init.lua` unchanged, turns
\* `./nvim/init.lua` into `nvim/init.lua`, and returns every result it
\* accepted unchanged when given it again.
C16_ExamplesAndFixedPoint ==
  (pc = "normalizeManagedPath" /\ res # <<>>) =>
    /\ arg \in {EtcPasswd, UpUpEtcPasswd, GitDir, GitConfig} => ~res[1].ok
    /\ arg \in {NvimInitLua, DotNvimInitLua} => res[1] = [ok |-> TRUE, rel |-> NvimInitLua]
    /\ Len(res) >= 2 => res[2] = res[1]

\* C16 amended: the same examples; and the classifier returns a result it
\* accepted unchanged when given it again, provided the result neither begins
\* nor ends with whitespace.
C16_ExamplesAndTrimmedFixedPoint ==
  (pc = "normalizeManagedPath" /\ res # <<>>) =>
    /\ arg \in {EtcPasswd, UpUpEtcPasswd, GitDir, GitConfig} => ~res[1].ok
    /\ arg \in {NvimInitLua, DotNvimInitLua} => res[1] = [ok |-> TRUE, rel |-> NvimInitLua]
    /\ (Len(res) >= 2 /\ TrimSpace(res[1].rel) = res[1].rel) => res[2] = res[1]

C16_Witness ==
  /\ pc = "normalizeManagedPath"
  /\ arg = DotNvimInitLua
  /\ Len(res) = 2
  /\ res[2] = [ok |-> TRUE, rel |-> NvimInitLua]

(***************************************************************************)
(* Properties of the glob ignore matcher                                   *)
(***************************************************************************)

\* The matcher was asked about the pattern p and the path r and has answered.
Asked(p, r) ==
  /\ pc = "shouldIgnorePath"
  /\ res # <<>>
  /\ ~res[1].err
  /\ arg.pattern = p
  /\ arg.rel = r

\* C17: the pattern `node_modules/**` matches `node_modules/pkg/index.js`
\* and does not match the bare path `node_modules`, asked about as a file or
\* as a directory; the pattern `**/node_modules` matches `a/b/node_modules`
\* and `node_modules`.
C17_NodeModulesPatterns ==
  /\ Asked(NodeModulesBelow, PkgIndexJs) => res[1].ignored
  /\ Asked(NodeModulesBelow, NodeModules) => ~res[1].ignored
  /\ Asked(BelowNodeModules, ABNodeModules) => res[1].ignored
  /\ Asked(BelowNodeModules, NodeModules) => res[1].ignored

\* A pattern in which only `*` and `**` are wildcards matches the whole
\* string s: `**` any run of characters, `*` any run of characters other than
\* the separator, every other character that same character.
RECURSIVE GlobMatches(_, _)
GlobMatches(p, s) ==
  IF p = <<>> THEN s = <<>>
  ELSE IF HasPrefix(p, <<"*", "*">>)
    THEN \E k \in 0..Len(s) : GlobMatches(SubSeq(p, 3, Len(p)), SubSeq(s, k + 1, Len(s)))
  ELSE IF Head(p) = "*"
    THEN \E k \in 0..Len(s) :
           /\ \A j \in 1..k : s[j] # "/"
           /\ GlobMatches(Tail(p), SubSeq(s, k + 1, Len(s)))
  ELSE s # <<>> /\ Head(s) = Head(p) /\ GlobMatches(Tail(p), Tail(s))

\* C18: a pattern matches a relative path, asked about as a file, exactly
\* when the whole path matches the pattern read with `*` and `**` as the only
\* wildcards and every other character, `?` and the metacharacters of
\* regular expressions included, standing for itself.
C18_OnlyStarsAreWildcards ==
  (Asked(arg.pattern, arg.rel) /\ ~arg.isDir /\ sanitizeIgnoreGlobs({arg.pattern}) = {arg.pattern}) =>
    res[1].ignored = GlobMatches(arg.pattern, arg.rel)

(***************************************************************************)
(* Properties of the reports                                               *)
(***************************************************************************)

\* How many items of the sequence q are p.
Count(q, p) == Cardinality({j \in DOMAIN q : q[j] = p})

\* The paths a bucket of items names, in order.
PathsOf(items) == [j \in DOMAIN items |-> items[j].path]

\* The name under which a report lists the selected line raw.
ListedAs(raw) ==
  IF normalizeManagedPath(raw).ok THEN normalizeManagedPath(raw).rel ELSE raw

\* What command i printed as its report: nothing when it returned an error
\* before printing.
Printed(i) ==
  IF hist[i].complete THEN hist[i].report
  ELSE IF hist[i].cmd = "doctor" THEN EmptyDoctorReport
  ELSE EmptyOperationReport

\* The report of track, untrack or unlink i lists every selected line in
\* exactly one bucket, and nothing else.
OperationPartition(i) ==
  \E rep \in {Printed(i)} :
    /\ \A j \in DOMAIN hist[i].selected :
         \E p \in {ListedAs(hist[i].selected[j])} :
           Count(PathsOf(rep.succeeded), p) + Count(PathsOf(rep.skipped), p)
             + Count(PathsOf(rep.failed), p) = 1
    /\ Len(rep.succeeded) + Len(rep.skipped) + Len(rep.failed) = Len(hist[i].selected)

\* The report of doctor i lists every managed path in exactly one of the
\* three buckets of the managed pass, and no path in two of the four buckets.
DoctorPartition(i) ==
  \E rep \in {Printed(i)} :
    /\ \A j \in DOMAIN hist[i].managed :
         \E p \in {hist[i].managed[j]} :
           Count(rep.didNotTouch, p) + Count(rep.replacedWithSymlink, p)
             + Count(rep.requireManualResolve, p) = 1
    /\ \E buckets \in {<<SeqToSet(rep.didNotTouch), SeqToSet(rep.replacedWithSymlink),
                         SeqToSet(PathsOf(rep.unlinkedOrphanSymlink)),
                         SeqToSet(rep.requireManualResolve)>>} :
         \A a, b \in 1..4 : a # b => buckets[a] \cap buckets[b] = {}

Buckets == {"succeeded", "skipped", "failed"}

\* The sequence q starts with the sequence p.
StartsWith(q, p) == Len(q) >= Len(p) /\ SubSeq(q, 1, Len(p)) = p

\* C20: in track, untrack and unlink every iteration of the loop handles the
\* first remaining selected line and stays in the loop until none remains;
\* it keeps every item the report already has; and when it ends in skipped or
\* failed, the live entry and the repository entry of every path that
\* succeeded earlier in the batch are what they were before it.
C20_NoRollbackAcrossPaths ==
  [][(pc \in {"track", "untrack", "unlink"} /\ todo # <<>>) =>
       /\ pc' = pc
       /\ todo' = Tail(todo)
       /\ \A b \in Buckets : StartsWith(opReport'[b], opReport[b])
       /\ opReport.changed => opReport'.changed
       /\ Len(opReport'.succeeded) = Len(opReport.succeeded) =>
            \A it \in SeqToSet(opReport.succeeded) :
              /\ fs'[LiveFile(it.path)] = fs[LiveFile(it.path)]
              /\ fs'[RepoFile(it.path)] = fs[RepoFile(it.path)]]_vars

\* A batch of two paths has ended: the first succeeded, the second then
\* failed on an I/O error.
C20_Witness ==
  /\ pc \in {"track", "untrack", "unlink"}
  /\ todo = <<>>
  /\ stepFault
  /\ \E s \in SeqToSet(opReport.succeeded) : s.path = RelA
  /\ \E x \in SeqToSet(opReport.failed) : x.path = RelDA

(***************************************************************************)
(* Properties of the resolution of the repository location                 *)
(***************************************************************************)

\* The value v, without the white space around it, names a usable repository.
Usable(v) == TrimSpace(v) \in GitRepos

\* resolveRepoPath has returned the repository named by the value v.
ResolvedTo(v) == res[1].err = "" /\ res[1].path = TrimSpace(v)

\* The configuration file holds a repo_path that is not empty once the white
\* space around it is trimmed.
HasRepoPath(c) == c.state = "json" /\ TrimSpace(c.repo_path) # <<>>

\* C21: a CFGS_REPO that is set and not blank decides alone: its repository
\* is the result, or the command fails on it without falling back to the
\* configuration, whatever the configuration file is. With CFGS_REPO unset
\* or blank, the repo_path of the configuration (non-empty once trimmed)
\* decides. With neither, config.json absent or without repo_path, the command
\* fails asking for initialization and not on a read error.
C21_RepoLocationPrecedence ==
  (pc = "resolveRepoPath" /\ res # <<>>) =>
    /\ TrimSpace(arg.env) # <<>> =>
         IF Usable(arg.env) THEN ResolvedTo(arg.env) ELSE res[1].err = "CFGS_REPO"
    /\ (TrimSpace(arg.env) = <<>> /\ HasRepoPath(arg.config)) =>
         IF Usable(arg.config.repo_path) THEN ResolvedTo(arg.config.repo_path)
         ELSE res[1].err = "cfgs config repo_path"
    /\ (TrimSpace(arg.env) = <<>> /\ ~HasRepoPath(arg.config)
          /\ arg.config.state \in {"absent", "json"}) =>
         res[1].err = "could not resolve repository"

\* CFGS_REPO names one repository and the configuration another one, and the
\* location has been resolved.
C21_Witness ==
  /\ pc = "resolveRepoPath"
  /\ res # <<>>
  /\ Usable(arg.env)
  /\ HasRepoPath(arg.config)
  /\ Usable(arg.config.repo_path)
  /\ TrimSpace(arg.config.repo_path) # TrimSpace(arg.env)

(***************************************************************************)
(* Properties of the selection                                             *)
(***************************************************************************)

\* This step is a whole command that asked the picker, which ended with the
\* exit status e, and got no selected line from it.
NothingPicked(e) ==
  /\ Len(hist') = Len(hist) + 1
  /\ hist'[Len(hist')].cmd \in {"track", "untrack", "unlink"}
  /\ hist'[Len(hist')].picker = e
  /\ hist'[Len(hist')].selected = <<>>

\* C22: when the picker exits with status 1 or 130, or prints no line, add
\* (and the selection of init), remove and unlink change nothing in the
\* filesystem, commit nothing, print no report item and return success; when
\* the picker fails in another way the command returns an error.
C22_EmptySelectionIsNotAnError ==
  [][\A e \in {0, 1, 130, 2} :
       NothingPicked(e) =>
         /\ fs' = fs
         /\ tracked' = tracked
         /\ hist'[Len(hist')].report = EmptyOperationReport
         /\ hist'[Len(hist')].exit = (IF e = 2 THEN "error" ELSE "ok")]_vars

\* remove has returned after an interrupted picker, and unlink or add after a
\* picker that printed no line.
C22_Witness ==
  \E i \in DOMAIN hist :
    /\ hist[i].selected = <<>>
    /\ \/ hist[i].cmd = "untrack" /\ hist[i].picker = 130
       \/ hist[i].cmd \in {"track", "unlink"} /\ hist[i].picker = 0

(***************************************************************************)
(* Properties of the ignore patterns                                       *)
(***************************************************************************)

\* The live paths below xdg.
LivePaths == {n \in DOMAIN fs : Len(n) > Len(xdg) /\ SubSeq(n, 1, Len(xdg)) = xdg}

\* The relative path rel matches the ignore patterns in force, or lies below
\* a directory that does: the path a under the pattern `a`, every path below
\* d under the pattern `d/**`.
Hidden(rel) ==
  IF ignoreGlobs = {<<"a">>} THEN rel = RelA ELSE HasPrefix(rel, <<"d", "/">>)

\* The scan lists exactly the regular files that are not hidden.
ScanFiltered ==
  pc = "scanXDGRegularFiles" =>
    SeqToSet(res[1]) =
      {RelOf(xdg, n) : n \in {m \in LivePaths : fs[m].kind = "file" /\ ~Hidden(RelOf(xdg, m))}}

\* The orphan walk of a doctor run leaves a hidden unmanaged symlink as it is
\* and reports nothing about it.
OrphanWalkFiltered ==
  \A i \in DoctorRuns : hist[i].complete =>
    \A n \in LivePaths :
      (/\ hist[i].before[n].kind = "link"
       /\ Hidden(RelOf(xdg, n))
       /\ RelOf(xdg, n) \notin SeqToSet(hist[i].managed)) =>
        /\ hist[i].after[n] = hist[i].before[n]
        /\ RelOf(xdg, n) \notin SeqToSet(PathsOf(hist[i].orphanPass.unlinkedOrphanSymlink))
        /\ RelOf(xdg, n) \notin SeqToSet(hist[i].orphanPass.requireManualResolve)

\* Command i met no I/O fault, and before it the repository held a regular
\* file at rel and the live directory the entry live at rel, in a directory.
Met(i, rel, live) ==
  /\ ~hist[i].faulted
  /\ hist[i].before[RepoFile(rel)].kind = "file"
  /\ hist[i].before[LiveFile(rel)] = live
  /\ hist[i].before[Dir(LiveFile(rel))].kind = "dir"

\* The managed-path pass of doctor, untrack and unlink handle a hidden path
\* like any other: doctor links an absent live path and leaves a linked one,
\* untrack and unlink put the file back in place of the link.
HiddenManagedHandled ==
  \A i \in DOMAIN hist : \A rel \in {RelA, RelDA} :
    Hidden(rel) =>
      /\ (hist[i].cmd = "doctor" /\ hist[i].complete /\ rel \in SeqToSet(hist[i].managed)
            /\ Met(i, rel, Absent)) =>
           /\ rel \in SeqToSet(hist[i].report.replacedWithSymlink)
           /\ hist[i].after[LiveFile(rel)] = Link(RepoFile(rel))
      /\ (hist[i].cmd = "doctor" /\ hist[i].complete /\ rel \in SeqToSet(hist[i].managed)
            /\ Met(i, rel, Link(RepoFile(rel)))) =>
           rel \in SeqToSet(hist[i].report.didNotTouch)
      /\ (hist[i].cmd \in {"untrack", "unlink"} /\ hist[i].selected = <<rel>>
            /\ Met(i, rel, Link(RepoFile(rel)))) =>
           /\ rel \in SeqToSet(PathsOf(hist[i].report.succeeded))
           /\ hist[i].after[LiveFile(rel)] = hist[i].before[RepoFile(rel)]

\* Track handles a hidden selected path like any other: a regular live file
\* with nothing at its repository path is moved and linked.
HiddenSelectedTracked ==
  \A i \in DOMAIN hist : \A rel \in {RelA, RelDA} :
    (/\ Hidden(rel)
     /\ hist[i].cmd = "track"
     /\ hist[i].selected = <<rel>>
     /\ rel \notin SeqToSet(hist[i].managed)
     /\ ~hist[i].faulted
     /\ hist[i].before[LiveFile(rel)].kind = "file"
     /\ Lookup(hist[i].before, RepoFile(rel)).kind = "absent"
     /\ hist[i].before[Dir(RepoFile(rel))].kind \in {"dir", "absent"}) =>
      /\ rel \in SeqToSet(PathsOf(hist[i].report.succeeded))
      /\ hist[i].after[RepoFile(rel)] = hist[i].before[LiveFile(rel)]
      /\ hist[i].after[LiveFile(rel)] = Link(RepoFile(rel))

\* C23: the ignore patterns take paths out of the scan for candidates and
\* out of the orphan walk, directories they match not being entered; the
\* managed-path pass of doctor, track, untrack and unlink handle a path the
\* patterns match like any other path.
C23_IgnoreOnlyScanAndOrphanWalk ==
  /\ ScanFiltered
  /\ OrphanWalkFiltered
  /\ HiddenManagedHandled
  /\ HiddenSelectedTracked

\* A complete doctor run met an unmanaged hidden symlink to a regular file of
\* the repository.
C23_Witness ==
  \E i \in DoctorRuns :
    /\ hist[i].complete
    /\ hist[i].managed # <<>>
    /\ \E n \in LivePaths :
         /\ Hidden(RelOf(xdg, n))
         /\ RelOf(xdg, n) \notin SeqToSet(hist[i].managed)
         /\ hist[i].before[n] = Link(RepoFile(RelOf(xdg, n)))
         /\ hist[i].before[RepoFile(RelOf(xdg, n))].kind = "file"

(***************************************************************************)
(* Properties of the pruning                                               *)
(***************************************************************************)

\* The path m lies strictly between the repository root and the path n.
Between(m, n) ==
  /\ Len(repoPath) < Len(m)
  /\ Len(m) < Len(n)
  /\ SubSeq(n, 1, Len(m)) = m

\* C24: after untrack has deleted the repository file arg, every other path
\* whose entry changed is a directory strictly between the repository root
\* and the file, it is removed, nothing is left in it, and the directory
\* below it on the way to the file was removed before it; the root, a
\* directory with an entry in it and every path outside stay as they were.
C24_PruneOnlyEmptyBelowRoot ==
  (pc = "removeEmptyDirsUpward" /\ res # <<>>) =>
    \A m \in DOMAIN fs \ {arg} :
      res[1][m] # fs[m] =>
        /\ Between(m, arg)
        /\ fs[m].kind = "dir"
        /\ res[1][m] = Absent
        /\ \A c \in DOMAIN fs :
             (Len(c) = Len(m) + 1 /\ SubSeq(c, 1, Len(m)) = m) => res[1][c] = Absent

\* The file d/d/a was deleted next to the file d/a: the directory d/d is
\* removed and the directory d, which is not empty, stays.
C24_Witness ==
  /\ pc = "removeEmptyDirsUpward"
  /\ res # <<>>
  /\ arg = repoPath \o <<D, D, A>>
  /\ fs[repoPath \o <<D, A>>].kind = "file"
  /\ res[1][repoPath \o <<D, D>>] = Absent
  /\ res[1][repoPath \o <<D>>] = DirEntry

(***************************************************************************)
(* Properties of the managed-path pass of doctor                           *)
(***************************************************************************)

\* The state of the repository file of rel: "regular" or "other" (missing or
\* not a regular file).
RepoState(f, rel) ==
  IF osStat(f, RepoFile(rel)).err = "" /\ osStat(f, RepoFile(rel)).kind = "file"
    THEN "regular" ELSE "other"

\* The state of the live entry of rel, "error" when it cannot be examined.
LiveState(f, rel) ==
  CHOOSE st \in {"absent", "error", "linked", "linked elsewhere", "identical", "different",
                 "other"} :
    \E live \in {osLstat(f, LiveFile(rel))} :
      st = IF live.err = "ENOENT" THEN "absent"
           ELSE IF live.err # "" THEN "error"
           ELSE IF live.kind = "link"
             THEN IF LinkedToRepo(f, rel) THEN "linked" ELSE "linked elsewhere"
           ELSE IF live.kind = "file"
             THEN IF live.data = osStat(f, RepoFile(rel)).data THEN "identical" ELSE "different"
           ELSE "other"

\* The table of the managed-path pass: the bucket for a repository state and a
\* live state.
TableBucket(repo, live) ==
  IF repo # "regular" THEN "requireManualResolve"
  ELSE IF live \in {"absent", "identical"} THEN "replacedWithSymlink"
  ELSE IF live = "linked" THEN "didNotTouch"
  ELSE "requireManualResolve"

\* The step has made the action of the table for the path rel in the states
\* repo and live: none; or the symlink to the repository file at the absent
\* live path, with the directories above it; or that symlink in the place of
\* the identical live file.
TableAction(rel, repo, live) ==
  IF TableBucket(repo, live) # "replacedWithSymlink" THEN fs' = fs
  ELSE IF live = "absent"
    THEN /\ fs'[LiveFile(rel)] = Link(RepoFile(rel))
         /\ \A n \in DOMAIN fs \ {LiveFile(rel)} :
              \/ fs'[n] = fs[n]
              \/ /\ Len(n) < Len(LiveFile(rel))
                 /\ SubSeq(LiveFile(rel), 1, Len(n)) = n
                 /\ fs[n] = Absent
                 /\ fs'[n] = DirEntry
  ELSE \E at \in {osLstat(fs, LiveFile(rel)).path} :
         /\ fs'[at] = Link(RepoFile(rel))
         /\ \A n \in DOMAIN fs \ {at} : fs'[n] = fs[n]

\* C25: an iteration of the managed-path pass that meets no I/O failure puts
\* its path in the bucket, and makes the action, that the table gives for
\* the state of the repository file and the state of the live entry.
C25_ManagedPassFollowsTable ==
  [][(pc = "doctor.managed" /\ todo # <<>> /\ ~stepFault'
        /\ LiveState(fs, Head(todo)) # "error") =>
       \E rel \in {Head(todo)} :
         \E repo \in {RepoState(fs, rel)} : \E live \in {LiveState(fs, rel)} :
           /\ report'[TableBucket(repo, live)] = Append(report[TableBucket(repo, live)], rel)
           /\ TableAction(rel, repo, live)]_vars

\* A doctor run without I/O failure has replaced a live file identical to
\* the repository file and has left a path that was linked already.
C25_Witness ==
  \E i \in DoctorRuns :
    /\ ~hist[i].faulted
    /\ hist[i].complete
    /\ hist[i].managed = <<RelA, RelDA>>
    /\ RepoState(hist[i].before, RelA) = "regular"
    /\ LiveState(hist[i].before, RelA) = "identical"
    /\ RelA \in SeqToSet(hist[i].report.replacedWithSymlink)
    /\ RepoState(hist[i].before, RelDA) = "regular"
    /\ LiveState(hist[i].before, RelDA) = "linked"
    /\ RelDA \in SeqToSet(hist[i].report.didNotTouch)

\* C26: an iteration of the managed-path pass that puts its path in
\* requireManualResolve leaves the live entry and the repository file of the
\* path exactly as they were, also when one of its filesystem steps fails.
C26_ManualResolveMeansUntouched ==
  [][(/\ pc = "doctor.managed"
      /\ todo # <<>>
      /\ Len(report'.requireManualResolve) = Len(report.requireManualResolve) + 1) =>
       /\ osLstat(fs', LiveFile(Head(todo))) = osLstat(fs, LiveFile(Head(todo)))
       /\ osStat(fs', RepoFile(Head(todo))) = osStat(fs, RepoFile(Head(todo)))]_vars

(***************************************************************************)
(* Properties of doctor and the repository                                 *)
(***************************************************************************)

\* C29: a doctor run, with its managed-path pass and its orphan pass, leaves
\* every entry below the repository root as it was, whatever the live
\* directory looks like.
C29_DoctorLeavesRepository ==
  \A i \in DoctorRuns : RepoTree(hist[i].after) = RepoTree(hist[i].before)

(***************************************************************************)
(* Properties of the failures of untrack and unlink                        *)
(***************************************************************************)

\* C30: an iteration of untrack or unlink that reports its path as failed
\* leaves the live entry and the repository file of the path as they were
\* before it.
C30_FailedMeansUnchanged ==
  [][\A cmd \in {"untrack", "unlink"} :
       (Stepped(cmd, "failed") /\ normalizeManagedPath(Head(todo)).ok) =>
         \E rel \in {normalizeManagedPath(Head(todo)).rel} :
           /\ osLstat(fs', LiveFile(rel)) = osLstat(fs, LiveFile(rel))
           /\ osStat(fs', RepoFile(rel)) = osStat(fs, RepoFile(rel))]_vars

(***************************************************************************)
(* interrupted runs                                                        *)
(***************************************************************************)

\* The faults that stop one iteration of a loop at each of its filesystem
\* steps: between two steps the iteration is where a failure of the next
\* step leaves it, and the compensating move of track is itself stopped at
\* each of its steps.
InterruptFaults ==
  IF pc = "track"
    THEN TrackFaults \cup {{"mkdirLive", "rollback.rename"}, {"symlink", "rollback.open"},
                           {"symlink", "rollback.remove"}}
  ELSE IF pc = "untrack" THEN UntrackFaults \cup {{"prune"}}
  ELSE IF pc = "unlink" THEN UnlinkFaults
  ELSE IF pc = "doctor.managed" THEN ManagedFaults
  ELSE OrphanFaults

\* The filesystems the running iteration can be stopped in: as it began, and
\* after each of its filesystem steps.
InterruptPoints ==
  {fs} \cup
  {IF pc = "track" THEN trackOne(fs, managedSet, Head(todo), xdev, flt).fs
   ELSE IF pc = "untrack" THEN removeOne(fs, Head(todo), flt).fs
   ELSE IF pc = "unlink" THEN unlinkOne(fs, Head(todo), flt).fs
   ELSE IF pc = "doctor.managed" THEN cmdDoctorPath(fs, Head(todo), flt).fs
   ELSE OrphanStepResult(fs, flt).fs : flt \in InterruptFaults}

\* The process is killed inside a loop: the filesystem stays as the
\* iteration left it, nothing is printed, nothing is committed.
Interrupt ==
  /\ pc \in {"track", "untrack", "unlink", "doctor.managed", "doctor.orphan"}
  /\ todo # <<>>
  /\ runsLeft > 0
  /\ \E g \in InterruptPoints :
       /\ fs' = g
       /\ Finish(IF pc \in {"doctor.managed", "doctor.orphan"} THEN "doctor" ELSE pc,
                 start, g, IF pc \in {"doctor.managed", "doctor.orphan"} THEN report ELSE opReport,
                 "killed", FALSE)
  /\ UNCHANGED <<tracked, ignoreGlobs, xdev, maxPick, arg, res, runsLeft>>

\* A command killed in its loop (add, remove and unlink in the iteration
\* of their one selected line, doctor in any iteration), and the commands
\* after it: a doctor run each.
InitRecover ==
  /\ fs \in {f \in OpsLayouts : WellFormed(f)}
  /\ tracked \in {{}, {RelA}, {RelDA}}
  /\ ignoreGlobs = defaultIgnoreGlobs
  /\ xdev \in BOOLEAN
  /\ maxPick = MaxSelected
  /\ arg = <<>>
  /\ res = <<>>
  /\ hist = <<>>
  /\ runsLeft = MaxRuns + 1
  /\ Idle

FirstCommand ==
  /\ hist = <<>>
  /\ (TrackBegin \/ UntrackBegin \/ UnlinkBegin)

Recover == FirstCommand \/ Interrupt \/ Doctor

SpecRecover == InitRecover /\ [][Recover]_vars

(***************************************************************************)
(* C28: content preservation during track                                  *)
(***************************************************************************)

\* The path p leads to a regular file with the bytes d.
HoldsBytes(f, p, d) ==
  \E i \in {osStat(f, p)} : i.err = "" /\ i.kind = "file" /\ i.data = d

\* The add commands stopped in the iteration of their selected line.
StoppedTracks ==
  {i \in DOMAIN hist : hist[i].cmd = "track" /\ hist[i].exit = "killed"}

\* C28: wherever the track of a path is stopped (after the rename, during or
\* after the copy of the cross-filesystem fallback, before or after the
\* symlink, during the compensating move, with any step failing), the
\* complete bytes the live file had are at the live path or at the
\* repository path.
C28_TrackKeepsContent ==
  \A i \in StoppedTracks :
    \E norm \in {normalizeManagedPath(hist[i].selected[1])} :
      norm.ok =>
        \E live \in {osLstat(hist[i].before, LiveFile(norm.rel))} :
          (live.err = "" /\ live.kind = "file") =>
            \/ HoldsBytes(hist[i].after, LiveFile(norm.rel), live.data)
            \/ HoldsBytes(hist[i].after, RepoFile(norm.rel), live.data)

\* A track stopped in the middle of the fallback's copy: the repository file
\* is incomplete and the live file still whole.
C28_Witness ==
  \E i \in StoppedTracks :
    /\ hist[i].selected = <<RelA>>
    /\ hist[i].before[LiveFile(RelA)] = File("x")
    /\ hist[i].after[RepoFile(RelA)] = File(Partial("x"))
    /\ hist[i].after[LiveFile(RelA)] = File("x")

(***************************************************************************)
(* C27: recovery from interrupted runs                                     *)
(***************************************************************************)

\* The runs stopped between two filesystem steps.
KilledRuns == {i \in DOMAIN hist : hist[i].exit = "killed"}

\* The paths whose live entry or repository entry the stopped run changed.
AffectedPaths(i) ==
  {rel \in {RelA, RelDA} :
     \/ hist[i].before[LiveFile(rel)] # hist[i].after[LiveFile(rel)]
     \/ hist[i].before[RepoFile(rel)] # hist[i].after[RepoFile(rel)]}

\* The doctor run j ran to its end, with no I/O fault.
WholeDoctorRun(j) ==
  j \in DoctorRuns /\ hist[j].exit # "killed" /\ ~hist[j].faulted

\* The bytes d that were at the live path or the repository path of rel in f
\* are at one of the two in g.
BytesKept(f, g, rel) ==
  \A d \in Data :
    (HoldsBytes(f, LiveFile(rel), d) \/ HoldsBytes(f, RepoFile(rel), d)) =>
      (HoldsBytes(g, LiveFile(rel), d) \/ HoldsBytes(g, RepoFile(rel), d))

\* C27: when a track, untrack, unlink or doctor run is stopped between two
\* of its filesystem steps and a doctor run then runs to its end, every path
\* the stopped run changed whose repository file exists is linked to its
\* repository file or in requireManualResolve, and the bytes a path had at
\* its live path or its repository path before the stopped run are still at
\* one of the two.
C27_DoctorRecoversInterruptedRuns ==
  \A i \in KilledRuns :
    WholeDoctorRun(i + 1) =>
      /\ \A rel \in AffectedPaths(i) :
           osStat(hist[i + 1].after, RepoFile(rel)).err = "" =>
             \/ LinkedToRepo(hist[i + 1].after, rel)
             \/ rel \in SeqToSet(hist[i + 1].report.requireManualResolve)
      /\ \A rel \in {RelA, RelDA} : BytesKept(hist[i].before, hist[i + 1].after, rel)

(***************************************************************************)
(* sync                                                                    *)
(***************************************************************************)

\* What gitHead reads: no commit yet, or the commit HEAD names.
NoHead == [head |-> "", exists |-> FALSE]
HeadAt(h) == [head |-> h, exists |-> TRUE]

\* A git command sync ran, and whether it succeeded.
Ran(cmd, ok) == [cmd |-> cmd, ok |-> ok]

\* The work tree after a pull that brought a commit: the repository file of
\* a has the bytes of the remote.
Pulled(f) == [f EXCEPT ![Join(repoPath, RelA)] = File("y")]

\* `git pull --rebase --autostash` with the repository at head h: it fails,
\* leaving the work tree as it was or in the middle of the rebase; or it
\* succeeds, with nothing new or with a new commit.
Pulls(f, tr, h) ==
  {[err |-> "pull failed", fs |-> f, tracked |-> tr, at |-> h],
   [err |-> "pull failed", fs |-> Pulled(f), tracked |-> tr, at |-> h],
   [err |-> "", fs |-> f, tracked |-> tr, at |-> h],
   [err |-> "", fs |-> Pulled(f), tracked |-> tr \cup {RelA}, at |-> HeadAt("h2")]}

\* showSyncDiff: the line it prints, the git command it runs (none when
\* there is nothing to show) and its error; gitOk is whether that command
\* succeeds.
showSyncDiff(before, after, gitOk) ==
  IF before.exists /\ after.exists /\ before.head = after.head
    THEN [out |-> "sync: already up to date.", cmd |-> "", err |-> ""]
  ELSE IF before.exists /\ after.exists
    THEN [out |-> "sync: pulled updates", cmd |-> "diff",
          err |-> IF gitOk THEN "" ELSE "git diff failed"]
  ELSE IF ~before.exists /\ after.exists
    THEN [out |-> "sync: repository now has commits", cmd |-> "show",
          err |-> IF gitOk THEN "" ELSE "git show failed"]
  ELSE [out |-> "sync: no commits found.", cmd |-> "", err |-> ""]

\* `if err != nil { return ... }` with the check lost.
returnsOnErrorNever(err) == FALSE

\* `if err != nil { return ... }` after each step of cmdSync.
returnsOnError(err) == err # ""

\* cmdSync returns an error before the doctor.
SyncFails(f) ==
  /\ Finish("sync", [fs |-> start.fs, managed |-> <<>>, selected |-> <<>>, picker |-> -1,
                     faulted |-> FALSE],
            f, EmptyDoctorReport, "error", FALSE)
  /\ runsLeft' = runsLeft - 1

\* cmdSync goes on to its next step.
SyncGoesOn(next) ==
  /\ pc' = next
  /\ UNCHANGED <<todo, managedSet, report, orphanReport, opReport, start, hist, stepFault,
                 runsLeft>>

\* cmdSync, up to the pull: the repository is resolved and gitHead reads the
\* head (arg[1] is the repository's head, arg[2] what gitHead read).
SyncBegin ==
  /\ pc = "idle"
  /\ runsLeft > 0
  /\ hist = <<>>
  /\ res = <<>>
  /\ \E err \in {"", "rev-parse failed"} :
       /\ res' = <<Ran("rev-parse", err = "")>>
       /\ arg' = IF err = "" THEN Append(arg, arg[1]) ELSE Append(arg, NoHead)
       /\ IF returnsOnError(err) THEN SyncFails(fs) ELSE SyncGoesOn("sync.pull")
  /\ UNCHANGED <<fs, tracked, ignoreGlobs, xdev, maxPick>>

\* The pull; when it fails, `git rebase --abort` and `git merge --abort` run,
\* their errors dropped, and sync returns the error.
SyncPull ==
  /\ pc = "sync.pull"
  /\ \E p \in Pulls(fs, tracked, arg[1]) :
       /\ fs' = p.fs
       /\ tracked' = p.tracked
       /\ arg' = [arg EXCEPT ![1] = p.at]
       /\ IF returnsOnError(p.err)
            THEN /\ \E ab \in BOOLEAN :
                      res' = res \o <<Ran("pull", FALSE), Ran("rebase --abort", ab),
                                      Ran("merge --abort", ab)>>
                 /\ SyncFails(p.fs)
          ELSE /\ res' = Append(res, Ran("pull", p.err = ""))
               /\ SyncGoesOn("sync.head")
  /\ UNCHANGED <<ignoreGlobs, xdev, maxPick>>

\* gitHead after the pull (arg[3] is what it read).
SyncHead ==
  /\ pc = "sync.head"
  /\ \E err \in {"", "rev-parse failed"} :
       /\ res' = Append(res, Ran("rev-parse", err = ""))
       /\ arg' = IF err = "" THEN Append(arg, arg[1]) ELSE Append(arg, NoHead)
       /\ IF returnsOnError(err) THEN SyncFails(fs) ELSE SyncGoesOn("sync.diff")
  /\ UNCHANGED <<fs, tracked, ignoreGlobs, xdev, maxPick>>

\* showSyncDiff, and on its success the call of cmdDoctorWithRepo, whose
\* result sync returns.
SyncDiff ==
  /\ pc = "sync.diff"
  /\ \E gitOk \in BOOLEAN :
       \E shown \in {showSyncDiff(arg[2], arg[3], gitOk)} :
         /\ res' = IF shown.cmd = "" THEN Append(res, Ran("print", TRUE))
                   ELSE Append(res, Ran(shown.cmd, shown.err = ""))
         /\ IF returnsOnError(shown.err) THEN SyncFails(fs) ELSE SyncGoesOn("idle")
  /\ UNCHANGED <<fs, tracked, ignoreGlobs, xdev, maxPick, arg>>

\* The doctor as sync calls it: after showSyncDiff has returned nil.
SyncDoctor ==
  /\ res # <<>>
  /\ Doctor

Sync == SyncBegin \/ SyncPull \/ SyncHead \/ SyncDiff \/ SyncDoctor

\* One sync from every layout, with the repository at a commit or at none.
InitSync ==
  /\ fs \in {f \in Layouts : WellFormed(f)}
  /\ tracked \in SUBSET {RelA, RelDA}
  /\ ignoreGlobs = defaultIgnoreGlobs
  /\ xdev = FALSE
  /\ maxPick = MaxSelected
  /\ arg \in {<<NoHead>>, <<HeadAt("h1")>>}
  /\ res = <<>>
  /\ hist = <<>>
  /\ runsLeft = MaxRuns
  /\ Idle

SpecSync == InitSync /\ [][Sync]_vars

(***************************************************************************)
(* C31: sync runs the doctor only after a successful pull                  *)
(***************************************************************************)

\* The entries below the live directory.
LiveTree(f) ==
  [n \in {m \in Nodes : Len(m) >= Len(xdg) /\ SubSeq(m, 1, Len(xdg)) = xdg} |-> f[n]]

\* The place of the pull among the commands sync ran, 0 when it did not run.
PullAt == IF \E k \in DOMAIN res : res[k].cmd = "pull"
            THEN CHOOSE k \in DOMAIN res : res[k].cmd = "pull"
          ELSE 0

\* The sync has returned.
SyncReturned == res # <<>> /\ hist # <<>>

\* C31: when the pull fails, sync has run `git rebase --abort` and
\* `git merge --abort` after it, returns an error and has changed nothing
\* below the live directory; when the pull succeeds, the doctor runs, after
\* the diff has been shown, and the result of sync is the doctor's.
C31_DoctorOnlyAfterPull ==
  (SyncReturned /\ PullAt # 0) =>
    IF ~res[PullAt].ok
      THEN /\ Len(res) = PullAt + 2
           /\ res[PullAt + 1].cmd = "rebase --abort"
           /\ res[PullAt + 2].cmd = "merge --abort"
           /\ hist[1].cmd = "sync" /\ hist[1].exit = "error"
           /\ LiveTree(hist[1].after) = LiveTree(hist[1].before)
    ELSE /\ hist[1].cmd = "doctor"
         /\ Len(res) = PullAt + 2
         /\ res[Len(res)].cmd \in {"diff", "show", "print"} /\ res[Len(res)].ok

\* Some step of sync failed.
SyncStepFailed == \E k \in DOMAIN res : ~res[k].ok /\ res[k].cmd \notin {"rebase --abort", "merge --abort"}

\* C31, amended: when the pull fails, sync has run `git rebase --abort` and
\* `git merge --abort` after it, returns an error and has changed nothing
\* below the live directory; when the pull succeeds and reading the head or
\* showing the diff fails, sync returns an error, the doctor has not run and
\* nothing below the live directory has changed; when all three succeed the
\* doctor runs, after the diff has been shown, and the result of sync is the
\* doctor's.
C31_DoctorOnlyAfterPullAndDiff ==
  (SyncReturned /\ PullAt # 0) =>
    IF ~res[PullAt].ok
      THEN /\ Len(res) = PullAt + 2
           /\ res[PullAt + 1].cmd = "rebase --abort"
           /\ res[PullAt + 2].cmd = "merge --abort"
           /\ hist[1].cmd = "sync" /\ hist[1].exit = "error"
           /\ LiveTree(hist[1].after) = LiveTree(hist[1].before)
    ELSE IF SyncStepFailed
      THEN /\ hist[1].cmd = "sync" /\ hist[1].exit = "error"
           /\ LiveTree(hist[1].after) = LiveTree(hist[1].before)
    ELSE /\ hist[1].cmd = "doctor"
         /\ Len(res) = PullAt + 2
         /\ res[Len(res)].cmd \in {"diff", "show", "print"} /\ res[Len(res)].ok

\* A sync whose pull brought a commit, whose diff was shown and whose doctor
\* replaced a live file with a symlink and failed on another path.
C31_Witness ==
  /\ SyncReturned
  /\ PullAt # 0 /\ res[PullAt].ok
  /\ res[Len(res)] = Ran("diff", TRUE)
  /\ hist[1].cmd = "doctor" /\ hist[1].complete
  /\ hist[1].report.replacedWithSymlink # <<>>
  /\ hist[1].exit = "error"

====
